---- MODULE Spec2Model ----
(***************************************************************************)
(* Model of the server side of kouhei-dev/ai-chat: the session store       *)
(* (lib/session/index.ts), the POST /chat, /session and /cleanup handlers  *)
(* (lib/api/app.ts) and the model collaborator wrapper                     *)
(* (lib/mastra/agent.ts).                                                  *)
(*                                                                         *)
(* Time is counted in hours (the unit of SESSION_EXPIRY_HOURS).  A string  *)
(* is a sequence of runs [k, n]: n UTF-16 code units of whitespace         *)
(* (k = "ws") or of other characters (k = "ch"), so that String.trim and   *)
(* String.length are computed and not assumed.  A message's createdAt is   *)
(* the store's write stamp: later writes get larger stamps.                *)
(***************************************************************************)
EXTENDS Integers, Sequences, FiniteSets, TLC

VARIABLES
    env,            \* process.env.SESSION_EXPIRY_HOURS
    now,            \* new Date(), in hours
    sessions,       \* prisma.session rows
    conversations,  \* prisma.conversation rows
    messages,       \* prisma.message rows
    nextSession,    \* number of sessions ever created (fresh UUID / ObjectId)
    nextConv,       \* number of conversations ever created (fresh ObjectId)
    nextStamp,      \* number of messages ever written (createdAt order)
    issued,         \* what POST /session has answered so far: token -> dates
    out,            \* the response of the handler that ran last (session, cleanup)
    req,            \* the POST /chat requests: position and locals of each
    secret,         \* process.env.CLEANUP_SECRET
    job,            \* the cleanupExpiredSessions run in flight: position and locals
    client,         \* the page: localStorage and the state of ChatContainer
    input,          \* the page's ChatInput: its state, its timers
    tally           \* cleanup runs so far: counts answered, sessions removed

vars == <<env, now, sessions, conversations, messages, nextSession, nextConv,
          nextStamp, issued, out, req, secret, job, client, input, tally>>

store == <<sessions, conversations, messages>>

-----------------------------------------------------------------------------
(* Bounds of the model *)

MaxSessions == 2
MaxConvs == 1
MaxStamp == 4
MaxTime == 2
MaxSessionTime == 26
MaxJobSessions == 1
MaxApiSessions == 1
MaxApiStamp == 1
MaxSends == 2
MaxLoads == 2
ClockStep == 500
MaxInputSends == 3

(* Program constants *)

MAX_MESSAGE_LENGTH == 400
DefaultExpiryHours == 24

-----------------------------------------------------------------------------
(* JavaScript values of the request body's fields *)

Undefined == [ty |-> "undefined", fmt |-> "", n |-> 0]
JsNull == [ty |-> "null", fmt |-> "", n |-> 0]
Num(n) == [ty |-> "number", fmt |-> "", n |-> n]
Str(fmt, n) == [ty |-> "string", fmt |-> fmt, n |-> n]

\* `!v` is false
Truthy(v) ==
    \/ v.ty = "string" /\ v.fmt # "empty"
    \/ v.ty = "number" /\ v.n # 0

isValidUUID(v) == v.fmt = "uuid"

isValidObjectId(v) == v.fmt = "oid"

(* Strings as runs *)

Ws(n) == [k |-> "ws", n |-> n]
Ch(n) == [k |-> "ch", n |-> n]

RECURSIVE StrLength(_)
StrLength(runs) ==
    IF runs = <<>> THEN 0 ELSE Head(runs).n + StrLength(Tail(runs))

RECURSIVE TrimStart(_)
TrimStart(runs) ==
    IF runs = <<>> THEN <<>>
    ELSE IF Head(runs).k = "ws" THEN TrimStart(Tail(runs))
    ELSE runs

RECURSIVE TrimEnd(_)
TrimEnd(runs) ==
    IF runs = <<>> THEN <<>>
    ELSE IF runs[Len(runs)].k = "ws" THEN TrimEnd(SubSeq(runs, 1, Len(runs) - 1))
    ELSE runs

Trim(runs) == TrimEnd(TrimStart(runs))

\* the message field: ty as above, runs its text when it is a string
Msg(ty, runs) == [ty |-> ty, runs |-> runs]

MsgTruthy(m) ==
    \/ m.ty = "string" /\ StrLength(m.runs) > 0
    \/ m.ty = "number"

-----------------------------------------------------------------------------
(* Responses *)

Resp(status, code) == [status |-> status, code |-> code]

Pass == Resp(0, "PASS")

(* POST /chat: the checks made before any I/O.  body.kind is "unparsable" *)
(* (c.req.json() throws), "null" (the JSON text null), "primitive" (any   *)
(* other JSON value that is not an object: its properties are undefined)  *)
(* or "object".                                                           *)

Field(body, f) == IF body.kind = "object" THEN body[f] ELSE Undefined

MessageField(body) ==
    IF body.kind = "object" THEN body.message ELSE Msg("undefined", <<>>)

\* variant: the length of the untrimmed text
TooLongNoTrim(message) == StrLength(message.runs) > MAX_MESSAGE_LENGTH

TooLong(message) == StrLength(Trim(message.runs)) > MAX_MESSAGE_LENGTH

ValidateChat(body) ==
    LET message == MessageField(body)
        sessionId == Field(body, "sessionId")
        conversationId == Field(body, "conversationId")
    IN  IF body.kind = "unparsable" THEN Resp(400, "INVALID_REQUEST_BODY")
        \* destructuring null throws a TypeError, caught by the handler's catch
        ELSE IF body.kind = "null" THEN Resp(500, "CHAT_ERROR")
        ELSE IF ~MsgTruthy(message) \/ message.ty # "string"
             THEN Resp(400, "MISSING_MESSAGE")
        ELSE IF StrLength(Trim(message.runs)) = 0 THEN Resp(400, "EMPTY_MESSAGE")
        ELSE IF TooLong(message) THEN Resp(400, "MESSAGE_TOO_LONG")
        ELSE IF ~Truthy(sessionId) \/ sessionId.ty # "string"
             THEN Resp(400, "MISSING_SESSION_ID")
        ELSE IF ~isValidUUID(sessionId) THEN Resp(400, "INVALID_SESSION_ID_FORMAT")
        ELSE IF conversationId.ty \notin {"undefined", "null"}
                /\ (conversationId.ty # "string" \/ ~isValidObjectId(conversationId))
             THEN Resp(400, "INVALID_CONVERSATION_ID_FORMAT")
        ELSE Pass

\* an environment variable that is not set
Unset == [k |-> "unset", n |-> 0]

-----------------------------------------------------------------------------
(* Session store: lib/session/index.ts *)

EnvVal(k, n) == [k |-> k, n |-> n]

\* variant: hours < 0 instead of hours <= 0
getSessionExpiryHoursZero ==
    IF env.k \in {"unset", "empty"} THEN [ok |-> TRUE, hours |-> DefaultExpiryHours]
    ELSE IF env.k = "nan" THEN [ok |-> FALSE, hours |-> 0]
    ELSE IF env.n < 0 THEN [ok |-> FALSE, hours |-> 0]
    ELSE [ok |-> TRUE, hours |-> env.n]

\* [ok, hours]: ok = FALSE when the function throws.  env.k is "int" when
\* parseInt(envValue, 10) is the number env.n, "nan" when it is NaN
getSessionExpiryHours ==
    IF env.k \in {"unset", "empty"} THEN [ok |-> TRUE, hours |-> DefaultExpiryHours]
    ELSE IF env.k = "nan" THEN [ok |-> FALSE, hours |-> 0]
    ELSE IF env.n <= 0 THEN [ok |-> FALSE, hours |-> 0]
    ELSE [ok |-> TRUE, hours |-> env.n]

calculateExpiryDate == now + getSessionExpiryHours.hours

SessionRow(n, expiresAt) ==
    [id |-> Str("oid", n), sessionId |-> Str("uuid", n), expiresAt |-> expiresAt]

findUnique(sessionId) == {s \in sessions : s.sessionId = sessionId}

ValidationOf(valid, message, expiresAt) ==
    [valid |-> valid, message |-> message, expiresAt |-> expiresAt]

\* variant: no expiry check
validateSessionNoExpiry(sessionId) ==
    LET found == findUnique(sessionId)
    IN  IF found = {} THEN ValidationOf(FALSE, "not found", 0)
        ELSE ValidationOf(TRUE, "", (CHOOSE s \in found : TRUE).expiresAt)

\* variant: expired from expiresAt on
validateSessionStrict(sessionId) ==
    LET found == findUnique(sessionId)
    IN  IF found = {} THEN ValidationOf(FALSE, "not found", 0)
        ELSE LET session == CHOOSE s \in found : TRUE
             IN  IF now >= session.expiresAt THEN ValidationOf(FALSE, "expired", 0)
                 ELSE ValidationOf(TRUE, "", session.expiresAt)

validateSession(sessionId) ==
    LET found == findUnique(sessionId)
    IN  IF found = {} THEN ValidationOf(FALSE, "not found", 0)
        ELSE LET session == CHOOSE s \in found : TRUE
             IN  IF now > session.expiresAt THEN ValidationOf(FALSE, "expired", 0)
                 ELSE ValidationOf(TRUE, "", session.expiresAt)

\* variant: the load leaves out a session whose expiresAt has passed
getSessionByIdUnexpired(sessionId) ==
    {s \in findUnique(sessionId) : s.expiresAt >= now}

getSessionById(sessionId) == findUnique(sessionId)

(* The response of the handler that ran last *)

\* an Authorization header: absent, or its first seven code units and the rest
Header(present, prefix, rest) == [present |-> present, prefix |-> prefix, rest |-> rest]

NoHeader == Header(FALSE, "", 0)

Out(op, sessionId, status, code, valid, expiresAt, count) ==
    [op |-> op, sessionId |-> sessionId, status |-> status, code |-> code,
     valid |-> valid, expiresAt |-> expiresAt, count |-> count,
     header |-> NoHeader, conversations |-> <<>>]

NoOut == Out("none", Undefined, 0, "", FALSE, 0, 0)

\* POST /session
CreateSession ==
    /\ nextSession < MaxSessions
    /\ IF getSessionExpiryHours.ok
       THEN LET n == nextSession + 1
                expiresAt == calculateExpiryDate
            IN  /\ sessions' = sessions \cup {SessionRow(n, expiresAt)}
                /\ nextSession' = n
                /\ issued' = issued \cup
                       {[sessionId |-> Str("uuid", n), createdAt |-> now,
                         expiresAt |-> expiresAt]}
                /\ out' = Out("createSession", Str("uuid", n), 200, "", TRUE, expiresAt, 0)
       ELSE /\ out' = Out("createSession", Undefined, 500, "SESSION_CREATE_FAILED",
                          FALSE, 0, 0)
            /\ UNCHANGED <<sessions, nextSession, issued>>
    /\ UNCHANGED <<env, secret, job, now, conversations, messages, nextConv, nextStamp, req>>

\* the tokens a client may present: those issued so far and one never issued
KnownTokens == {Str("uuid", n) : n \in 0..nextSession}

\* variant: an expired session is deleted when it is presented
ValidateSessionReqDeletes(sessionId) ==
    LET result == validateSession(sessionId)
    IN  /\ out' = IF result.valid
                  THEN Out("validateSession", sessionId, 200, "", TRUE, result.expiresAt, 0)
                  ELSE Out("validateSession", sessionId, 400, "SESSION_INVALID", FALSE, 0, 0)
        /\ sessions' = IF result.valid THEN sessions
                       ELSE {s \in sessions : s.sessionId # sessionId}
        /\ UNCHANGED <<env, secret, job, now, conversations, messages, nextSession,
                       nextConv, nextStamp, issued, req>>

\* GET /session/:sessionId
ValidateSessionReq(sessionId) ==
    LET result == validateSession(sessionId)
    IN  /\ out' = IF result.valid
                  THEN Out("validateSession", sessionId, 200, "", TRUE, result.expiresAt, 0)
                  ELSE Out("validateSession", sessionId, 400, "SESSION_INVALID", FALSE, 0, 0)
        /\ UNCHANGED <<env, secret, job, now, sessions, conversations, messages, nextSession,
                       nextConv, nextStamp, issued, req>>

(* cleanupExpiredSessions *)

\* variant: lte instead of lt
expiredSessionsLte == {s \in sessions : s.expiresAt <= now}

\* where: { expiresAt: { lt: new Date() } }
expiredSessions == {s \in sessions : s.expiresAt < now}

\* the schema's onDelete: Cascade, Session -> Conversation -> Message
onDeleteCascade(deleted) ==
    LET ids == {s.id : s \in deleted}
        convIds == {c.id : c \in {c \in conversations : c.sessionId \in ids}}
    IN  /\ conversations' = {c \in conversations : c.sessionId \notin ids}
        /\ messages' = {m \in messages : m.conversationId \notin convIds}

\* lib/session/index.ts: one deleteMany, the children go by cascade
CleanupCascade ==
    LET deleted == expiredSessions
    IN  /\ sessions' = sessions \ deleted
        /\ onDeleteCascade(deleted)
        /\ out' = Out("cleanup", Undefined, 200, "", FALSE, 0, Cardinality(deleted))
        /\ UNCHANGED <<env, secret, job, now, nextSession, nextConv, nextStamp, issued, req>>

\* variant: the transaction without the session deleteMany
CleanupTransactionKeepsSessions ==
    LET found == expiredSessions
        sessionIds == {s.id : s \in found}
        conversationIds == {c.id : c \in {c \in conversations : c.sessionId \in sessionIds}}
    IN  /\ IF found = {}
           THEN UNCHANGED store
           ELSE /\ messages' = {m \in messages : m.conversationId \notin conversationIds}
                /\ conversations' = {c \in conversations : c.sessionId \notin sessionIds}
                /\ sessions' = sessions
        /\ out' = Out("cleanup", Undefined, 200, "", FALSE, 0, Cardinality(found))
        /\ UNCHANGED <<env, secret, job, now, nextSession, nextConv, nextStamp, issued, req>>

\* the variant that deletes Messages, Conversations, Sessions in one transaction
CleanupTransaction ==
    LET found == expiredSessions
        sessionIds == {s.id : s \in found}
        conversationIds == {c.id : c \in {c \in conversations : c.sessionId \in sessionIds}}
    IN  /\ IF found = {}
           THEN UNCHANGED store
           ELSE /\ messages' = {m \in messages : m.conversationId \notin conversationIds}
                /\ conversations' = {c \in conversations : c.sessionId \notin sessionIds}
                /\ sessions' = {s \in sessions : s.id \notin sessionIds}
        /\ out' = Out("cleanup", Undefined, 200, "", FALSE, 0, Cardinality(found))
        /\ UNCHANGED <<env, secret, job, now, nextSession, nextConv, nextStamp, issued, req>>

(* POST /cleanup.  A text is the number that names it, 0 the empty one. *)

Secret(k, n) == [k |-> k, n |-> n]

\* `!authHeader` is false
HeaderTruthy(header) == header.present /\ ~(header.prefix = "" /\ header.rest = 0)

\* authHeader.startsWith('Bearer ')
StartsWithBearer(header) == header.prefix = "Bearer "

\* authHeader.substring(7)
BearerToken(header) == header.rest

OutCleanup(header, status, code, count) ==
    [Out("POST /cleanup", Undefined, status, code, FALSE, 0, count)
        EXCEPT !.header = header]

\* variant: the header is looked at before the secret
CleanupEndpointHeaderFirst(header) ==
    /\ IF ~HeaderTruthy(header) \/ ~StartsWithBearer(header)
       THEN /\ out' = OutCleanup(header, 401, "AUTH_REQUIRED", 0)
            /\ UNCHANGED store
       ELSE IF secret.k \in {"unset", "empty"}
       THEN /\ out' = OutCleanup(header, 503, "CLEANUP_NOT_CONFIGURED", 0)
            /\ UNCHANGED store
       ELSE IF BearerToken(header) # secret.n
       THEN /\ out' = OutCleanup(header, 403, "AUTH_FAILED", 0)
            /\ UNCHANGED store
       ELSE LET deleted == expiredSessions
            IN  /\ sessions' = sessions \ deleted
                /\ onDeleteCascade(deleted)
                /\ out' = OutCleanup(header, 200, "", Cardinality(deleted))
    /\ UNCHANGED <<env, secret, job, now, nextSession, nextConv, nextStamp, issued, req>>

\* app.post('/cleanup'), with cleanupExpiredSessions of lib/session
CleanupEndpoint(header) ==
    /\ IF secret.k \in {"unset", "empty"}
       THEN /\ out' = OutCleanup(header, 503, "CLEANUP_NOT_CONFIGURED", 0)
            /\ UNCHANGED store
       ELSE IF ~HeaderTruthy(header) \/ ~StartsWithBearer(header)
       THEN /\ out' = OutCleanup(header, 401, "AUTH_REQUIRED", 0)
            /\ UNCHANGED store
       ELSE IF BearerToken(header) # secret.n
       THEN /\ out' = OutCleanup(header, 403, "AUTH_FAILED", 0)
            /\ UNCHANGED store
       ELSE LET deleted == expiredSessions
            IN  /\ sessions' = sessions \ deleted
                /\ onDeleteCascade(deleted)
                /\ out' = OutCleanup(header, 200, "", Cardinality(deleted))
    /\ UNCHANGED <<env, secret, job, now, nextSession, nextConv, nextStamp, issued, req>>

(* The transaction variant, one action per stretch between two awaits.  A  *)
(* crash of the process ends the run where it stands; the statements of    *)
(* prisma.$transaction([...]) commit together or not at all.               *)

Job(pc, sessionIds, conversationIds) ==
    [pc |-> pc, sessionIds |-> sessionIds, conversationIds |-> conversationIds]

JobIdle == Job("idle", {}, {})

\* const expiredSessions = await prisma.session.findMany(...)
CleanupFindSessions ==
    /\ job.pc \in {"idle", "crashed"}
    /\ LET found == expiredSessions
       IN  IF found = {}
           THEN /\ job' = JobIdle
                /\ out' = Out("cleanup", Undefined, 200, "", FALSE, 0, 0)
           ELSE /\ job' = Job("findConversations", {s.id : s \in found}, {})
                /\ out' = NoOut
    /\ UNCHANGED <<env, secret, now, sessions, conversations, messages, nextSession,
                   nextConv, nextStamp, issued, req>>

\* const conversations = await prisma.conversation.findMany(...)
CleanupFindConversations ==
    /\ job.pc = "findConversations"
    /\ job' = Job("transaction", job.sessionIds,
                  {c.id : c \in {c \in conversations : c.sessionId \in job.sessionIds}})
    /\ out' = NoOut
    /\ UNCHANGED <<env, secret, now, sessions, conversations, messages, nextSession,
                   nextConv, nextStamp, issued, req>>

\* variant: the three deleteMany without the transaction, sessions first,
\* and the process stops after the first
CleanupCommitSessionsFirst ==
    /\ job.pc = "transaction"
    /\ sessions' = {s \in sessions : s.id \notin job.sessionIds}
    /\ UNCHANGED <<conversations, messages>>
    /\ job' = JobIdle
    /\ out' = NoOut
    /\ UNCHANGED <<env, secret, now, nextSession, nextConv, nextStamp, issued, req>>

\* await prisma.$transaction([message, conversation, session deleteMany])
\* and return expiredSessions.length
CleanupCommit ==
    /\ job.pc = "transaction"
    /\ messages' = {m \in messages : m.conversationId \notin job.conversationIds}
    /\ conversations' = {c \in conversations : c.sessionId \notin job.sessionIds}
    /\ sessions' = {s \in sessions : s.id \notin job.sessionIds}
    /\ job' = JobIdle
    /\ out' = Out("cleanup", Undefined, 200, "", FALSE, 0, Cardinality(job.sessionIds))
    /\ UNCHANGED <<env, secret, now, nextSession, nextConv, nextStamp, issued, req>>

\* the process dies inside a cleanup run: nothing of the run is committed
CleanupCrash ==
    /\ job.pc \in {"findConversations", "transaction"}
    /\ job' = Job("crashed", {}, {})
    /\ out' = NoOut
    /\ UNCHANGED <<env, secret, now, sessions, conversations, messages, nextSession,
                   nextConv, nextStamp, issued, req>>

\* the clock
Tick(max) ==
    /\ now < max
    /\ now' = now + 1
    /\ out' = NoOut
    /\ UNCHANGED <<env, secret, job, sessions, conversations, messages, nextSession, nextConv,
                   nextStamp, issued, req>>

-----------------------------------------------------------------------------
(* POST /chat: lib/api/app.ts.  One action per stretch of code between two *)
(* awaits; other requests, the clock and cleanup may run in between.       *)

Requests == {"r1"}

AllRequests == {"r1", "r2"}

NoBody == [kind |-> "none", message |-> Msg("undefined", <<>>),
           sessionId |-> Undefined, conversationId |-> Undefined,
           imageData |-> Undefined, imageMimeType |-> Undefined]

Body(kind, message, sessionId, conversationId) ==
    [kind |-> kind, message |-> message, sessionId |-> sessionId,
     conversationId |-> conversationId,
     imageData |-> Undefined, imageMimeType |-> Undefined]

\* the request of lib/api/chat.ts sendMessage: imageData and imageMimeType
\* are in the JSON body; the handler's destructuring does not name them
WithImage(body, imageData, imageMimeType) ==
    [body EXCEPT !.imageData = imageData, !.imageMimeType = imageMimeType]

Idle ==
    [pc |-> "idle", body |-> NoBody, resp |-> Pass, session |-> Undefined,
     conv |-> Undefined, created |-> FALSE, history |-> <<>>, ctx |-> <<>>,
     stamp |-> 0, reply |-> <<>>, reads |-> 0]

Entry(role, content) == [role |-> role, content |-> content]

\* the model collaborator's answer to a context
ReplyText(ctx) == <<Ch(1), Ws(1), Ch(Len(ctx))>>

MessageRow(conversationId, role, content, createdAt) ==
    [conversationId |-> conversationId, role |-> role, content |-> content,
     createdAt |-> createdAt]

\* updatedAt is set when the row is written; no handler writes a conversation
\* row again, and later rows get later dates
ConversationRow(id, sessionId, updatedAt) ==
    [id |-> id, sessionId |-> sessionId, updatedAt |-> updatedAt]

messagesOf(conversationId) == {m \in messages : m.conversationId = conversationId}

\* variant: orderBy: { createdAt: 'desc' }
RECURSIVE OrderByCreatedAtDesc(_)
OrderByCreatedAtDesc(rows) ==
    IF rows = {} THEN <<>>
    ELSE LET last == CHOOSE m \in rows : \A o \in rows : o.createdAt <= m.createdAt
         IN  <<last>> \o OrderByCreatedAtDesc(rows \ {last})

\* orderBy: { createdAt: 'asc' }: the rows before a middle row, that row and
\* the rows of its date, the rows after it
RECURSIVE OrderByCreatedAtAsc(_)
OrderByCreatedAtAsc(rows) ==
    IF rows = {} THEN <<>>
    ELSE LET half == Cardinality(rows) \div 2
             mid == CHOOSE m \in rows :
                        /\ Cardinality({o \in rows : o.createdAt < m.createdAt}) <= half
                        /\ Cardinality({o \in rows : o.createdAt <= m.createdAt}) > half
         IN  OrderByCreatedAtAsc({o \in rows : o.createdAt < mid.createdAt})
             \o <<mid>>
             \o OrderByCreatedAtAsc({o \in rows : o.createdAt = mid.createdAt} \ {mid})
             \o OrderByCreatedAtAsc({o \in rows : o.createdAt > mid.createdAt})

\* variant: where: { id } alone
findFirstAnyOwner(conversationId, sessionId) ==
    {c \in conversations : c.id = conversationId}

\* prisma.conversation.findFirst({ where: { id, sessionId } })
findFirst(conversationId, sessionId) ==
    {c \in conversations : c.id = conversationId /\ c.sessionId = sessionId}

\* conversation.messages.map(...) of the loaded conversation
HistoryOf(rows) == [i \in 1..Len(rows) |-> Entry(rows[i].role, rows[i].content)]

\* variant: the current message is in the history already and added again
generateResponseTwice(message, conversationHistory) ==
    conversationHistory \o <<Entry("user", message), Entry("user", message)>>

\* the messages generateResponse hands to chatAgent.generate
generateResponse(message, conversationHistory) ==
    conversationHistory \o <<Entry("user", message)>>

Done(r, resp) == req' = [req EXCEPT ![r].pc = "done", ![r].resp = resp]

\* variant: the session is validated before the input is checked
ChatStartReadsFirst(r, body) ==
    /\ req[r].pc \in {"idle", "done"}
    /\ nextStamp + 2 <= MaxStamp
    /\ body.conversationId.ty \in {"undefined", "null"} => nextConv < MaxConvs
    /\ LET v == ValidateChat(body)
           resp == IF v # Pass THEN v
                   ELSE IF ~validateSession(body.sessionId).valid
                        THEN Resp(401, "SESSION_INVALID")
                        ELSE Pass
       IN  req' = [req EXCEPT ![r] =
                [Idle EXCEPT !.body = body,
                             !.pc = IF resp = Pass THEN "getSessionById" ELSE "done",
                             !.resp = resp,
                             !.reads = 1]]
    /\ out' = NoOut
    /\ UNCHANGED <<env, secret, job, now, sessions, conversations, messages, nextSession,
                   nextConv, nextStamp, issued>>

\* the request arrives: body parsing, the checks before any I/O, and
\* const sessionResult = await validateSession(sessionId); reads counts the
\* queries the request has made
ChatStart(r, body) ==
    /\ req[r].pc \in {"idle", "done"}
    /\ nextStamp + 2 <= MaxStamp
    /\ body.conversationId.ty \in {"undefined", "null"} => nextConv < MaxConvs
    /\ LET v == ValidateChat(body)
           resp == IF v # Pass THEN v
                   ELSE IF ~validateSession(body.sessionId).valid
                        THEN Resp(401, "SESSION_INVALID")
                        ELSE Pass
       IN  req' = [req EXCEPT ![r] =
                [Idle EXCEPT !.body = body,
                             !.pc = IF resp = Pass THEN "getSessionById" ELSE "done",
                             !.resp = resp,
                             !.reads = IF v # Pass THEN 0 ELSE 1]]
    /\ out' = NoOut
    /\ UNCHANGED <<env, secret, job, now, sessions, conversations, messages, nextSession,
                   nextConv, nextStamp, issued>>

\* const session = await getSessionById(sessionId)
ChatGetSession(r) ==
    /\ req[r].pc = "getSessionById"
    /\ LET found == getSessionById(req[r].body.sessionId)
       IN  IF found = {}
           THEN req' = [req EXCEPT ![r].pc = "done", ![r].reads = @ + 1,
                                   ![r].resp = Resp(404, "SESSION_NOT_FOUND")]
           ELSE req' = [req EXCEPT ![r].pc = "conversation", ![r].reads = @ + 1,
                                   ![r].session = (CHOOSE s \in found : TRUE).id]
    /\ UNCHANGED <<env, secret, job, now, sessions, conversations, messages, nextSession,
                   nextConv, nextStamp, issued>>
    /\ out' = NoOut

\* variant: the conversationId of the request is ignored
ChatConversationAlwaysNew(r) ==
    /\ req[r].pc = "conversation"
    /\ LET id == Str("oid", nextConv + 1)
       IN  /\ conversations' = conversations \cup
                  {ConversationRow(id, req[r].session, nextConv + 1)}
           /\ nextConv' = nextConv + 1
           /\ req' = [req EXCEPT ![r].pc = "saveUser", ![r].conv = id,
                                 ![r].created = TRUE, ![r].history = <<>>]
    /\ UNCHANGED <<env, secret, job, now, sessions, messages, nextSession, nextStamp, issued>>
    /\ out' = NoOut

\* the conversation is looked up under the session, or created
ChatConversation(r) ==
    /\ req[r].pc = "conversation"
    /\ LET conversationId == req[r].body.conversationId
       IN  IF Truthy(conversationId)
           THEN LET found == findFirst(conversationId, req[r].session)
                IN  /\ IF found = {}
                       THEN req' = [req EXCEPT
                                ![r].pc = "done", ![r].reads = @ + 1,
                                ![r].resp = Resp(404, "CONVERSATION_NOT_FOUND")]
                       ELSE req' = [req EXCEPT
                                ![r].pc = "saveUser", ![r].reads = @ + 1,
                                ![r].conv = (CHOOSE c \in found : TRUE).id,
                                ![r].history = HistoryOf(OrderByCreatedAtAsc(
                                    messagesOf((CHOOSE c \in found : TRUE).id)))]
                    /\ UNCHANGED <<conversations, nextConv>>
           ELSE LET id == Str("oid", nextConv + 1)
                IN  /\ conversations' = conversations \cup
                           {ConversationRow(id, req[r].session, nextConv + 1)}
                    /\ nextConv' = nextConv + 1
                    /\ req' = [req EXCEPT ![r].pc = "saveUser", ![r].conv = id,
                                          ![r].created = TRUE, ![r].history = <<>>]
    /\ UNCHANGED <<env, secret, job, now, sessions, messages, nextSession, nextStamp, issued>>
    /\ out' = NoOut

\* await prisma.message.create({ role: 'user', content: message })
ChatSaveUser(r) ==
    /\ req[r].pc = "saveUser"
    /\ messages' = messages \cup
           {MessageRow(req[r].conv, "user", req[r].body.message.runs, nextStamp + 1)}
    /\ nextStamp' = nextStamp + 1
    /\ req' = [req EXCEPT ![r].pc = "generateResponse", ![r].stamp = nextStamp + 1]
    /\ UNCHANGED <<env, secret, job, now, sessions, conversations, nextSession, nextConv, issued>>
    /\ out' = NoOut

\* variant: a failed model call deletes the user message again
ChatGenerateCompensating(r, ok) ==
    /\ req[r].pc = "generateResponse"
    /\ LET ctx == generateResponse(req[r].body.message.runs, req[r].history)
       IN  IF ok
           THEN /\ req' = [req EXCEPT ![r].pc = "saveAssistant", ![r].ctx = ctx,
                                      ![r].reply = ReplyText(ctx)]
                /\ messages' = messages
           ELSE /\ req' = [req EXCEPT ![r].pc = "done", ![r].ctx = ctx,
                                      ![r].resp = Resp(500, "CHAT_ERROR")]
                /\ messages' = {m \in messages : m.createdAt # req[r].stamp}
    /\ UNCHANGED <<env, secret, job, now, sessions, conversations, nextSession, nextConv,
                   nextStamp, issued>>
    /\ out' = NoOut

\* const responseText = await generateResponse(message, conversationHistory)
ChatGenerate(r, ok) ==
    /\ req[r].pc = "generateResponse"
    /\ LET ctx == generateResponse(req[r].body.message.runs, req[r].history)
       IN  IF ok
           THEN req' = [req EXCEPT ![r].pc = "saveAssistant", ![r].ctx = ctx,
                                   ![r].reply = ReplyText(ctx)]
           \* chatAgent.generate throws: the handler's catch answers 500
           ELSE req' = [req EXCEPT ![r].pc = "done", ![r].ctx = ctx,
                                   ![r].resp = Resp(500, "CHAT_ERROR")]
    /\ UNCHANGED <<env, secret, job, now, sessions, conversations, messages, nextSession,
                   nextConv, nextStamp, issued>>
    /\ out' = NoOut

\* variant: the reply is written over the user message of the turn
ChatSaveAssistantOverwrites(r) ==
    /\ req[r].pc = "saveAssistant"
    /\ messages' = {m \in messages : m.createdAt # req[r].stamp} \cup
           {MessageRow(req[r].conv, "assistant", req[r].reply, nextStamp + 1)}
    /\ nextStamp' = nextStamp + 1
    /\ Done(r, Resp(200, ""))
    /\ UNCHANGED <<env, secret, job, now, sessions, conversations, nextSession, nextConv, issued>>
    /\ out' = NoOut

\* await prisma.message.create({ role: 'assistant' }) and the 200 answer
ChatSaveAssistant(r) ==
    /\ req[r].pc = "saveAssistant"
    /\ messages' = messages \cup
           {MessageRow(req[r].conv, "assistant", req[r].reply, nextStamp + 1)}
    /\ nextStamp' = nextStamp + 1
    /\ Done(r, Resp(200, ""))
    /\ UNCHANGED <<env, secret, job, now, sessions, conversations, nextSession, nextConv, issued>>
    /\ out' = NoOut

-----------------------------------------------------------------------------
(* GET /conversations *)

MAX_MESSAGES_PER_CONVERSATION == 100

\* variant: orderBy: { updatedAt: 'asc' }
RECURSIVE OrderByUpdatedAtAsc(_)
OrderByUpdatedAtAsc(rows) ==
    IF rows = {} THEN <<>>
    ELSE LET first == CHOOSE c \in rows : \A o \in rows : c.updatedAt <= o.updatedAt
         IN  <<first>> \o OrderByUpdatedAtAsc(rows \ {first})

\* orderBy: { updatedAt: 'desc' }
RECURSIVE OrderByUpdatedAtDesc(_)
OrderByUpdatedAtDesc(rows) ==
    IF rows = {} THEN <<>>
    ELSE LET last == CHOOSE c \in rows : \A o \in rows : o.updatedAt <= c.updatedAt
         IN  <<last>> \o OrderByUpdatedAtDesc(rows \ {last})

\* take: n
Take(rows, n) == SubSeq(rows, 1, IF Len(rows) < n THEN Len(rows) ELSE n)

\* variant: where: {} (no owner)
findManyAnyOwner(sessionId) == conversations

\* prisma.conversation.findMany({ where: { sessionId } })
findMany(sessionId) == {c \in conversations : c.sessionId = sessionId}

\* variant: include: { messages: { orderBy } } without take
IncludeMessagesNoTake(conversationId) ==
    OrderByCreatedAtAsc(messagesOf(conversationId))

\* include: { messages: { orderBy: { createdAt: 'asc' }, take: 100 } }
IncludeMessages(conversationId) ==
    Take(OrderByCreatedAtAsc(messagesOf(conversationId)), MAX_MESSAGES_PER_CONVERSATION)

\* the response body: conversations.map(...)
ConversationsResponse(rows) ==
    [i \in 1..Len(rows) |->
        [id |-> rows[i].id, updatedAt |-> rows[i].updatedAt,
         messages |->
            LET ms == IncludeMessages(rows[i].id)
            IN  [j \in 1..Len(ms) |->
                    [role |-> ms[j].role, content |-> ms[j].content,
                     createdAt |-> ms[j].createdAt]]]]

OutConversations(sessionId, status, code, rows) ==
    [Out("GET /conversations", sessionId, status, code, FALSE, 0, 0)
        EXCEPT !.conversations = rows]

\* app.get('/conversations')
GetConversations(sessionId) ==
    /\ out' =
        IF ~Truthy(sessionId) \/ sessionId.ty # "string"
        THEN OutConversations(sessionId, 400, "MISSING_SESSION_ID", <<>>)
        ELSE IF ~isValidUUID(sessionId)
        THEN OutConversations(sessionId, 400, "INVALID_SESSION_ID_FORMAT", <<>>)
        ELSE IF ~validateSession(sessionId).valid
        THEN OutConversations(sessionId, 401, "SESSION_INVALID", <<>>)
        ELSE LET found == getSessionById(sessionId)
             IN  IF found = {}
                 THEN OutConversations(sessionId, 404, "SESSION_NOT_FOUND", <<>>)
                 ELSE OutConversations(sessionId, 200, "",
                        ConversationsResponse(OrderByUpdatedAtDesc(
                            findMany((CHOOSE s \in found : TRUE).id))))
    /\ UNCHANGED <<env, secret, job, now, sessions, conversations, messages,
                   nextSession, nextConv, nextStamp, issued, req>>

-----------------------------------------------------------------------------
(* The page: ChatContainer with lib/api/chat.ts and lib/storage.  A call   *)
(* of the API that the server handles in one step is one action with the   *)
(* handler; POST /chat is sent in one action, handled in the handler's     *)
(* steps and received in another.  localStorage outlives the page.         *)

NoText == <<>>

\* `user-${Date.now()}`, `assistant-${Date.now()}`, `restored-${role}-${index}`
Id(kind, role, n) == [kind |-> kind, role |-> role, n |-> n]

Shown(id, role, content) == [id |-> id, role |-> role, content |-> content]

\* the send in flight: userMessage.id, content, the conversationId of the
\* closure, the request, and for the properties the list before the send
\* and whether handleRetry made the call
Pending(id, content, conversationId, r, before, retry) ==
    [id |-> id, content |-> content, conversationId |-> conversationId, r |-> r,
     before |-> before, retry |-> retry]

NoPending == Pending(Id("none", "", 0), NoText, Undefined, "none", <<>>, FALSE)

\* the component as mounted, with what localStorage and the clock hold;
\* for the properties, last tells how the latest send ended and inFlight
\* counts the calls of sendMessage that are awaited
Page(pc, stored, nextId, loads) ==
    [pc |-> pc, stored |-> stored, nextId |-> nextId, loads |-> loads, last |-> "",
     inFlight |-> 0,
     sessionId |-> Undefined, conversationId |-> Undefined, messages |-> <<>>,
     error |-> "", failedMessage |-> NoText, isLoading |-> FALSE,
     isInitializing |-> pc # "closed", pending |-> NoPending]

\* no page is open and localStorage is empty
NoPage == Page("closed", Undefined, 0, 0)

\* ChatInput as mounted: the text of the textarea, isThrottled, and of
\* each setTimeout that has not fired the time left; for the properties,
\* the number of calls of onSend and the time since the last, up to
\* SEND_THROTTLE_MS
Input(message, isThrottled, timers, sends, since) ==
    [message |-> message, isThrottled |-> isThrottled, timers |-> timers,
     sends |-> sends, since |-> since]

NoInput == Input(<<>>, FALSE, <<>>, 0, 0)

\* the deletedCount values answered so far and the sessions removed so far
Tally(answered, removed) == [answered |-> answered, removed |-> removed]

NoTally == Tally(0, 0)

server == <<env, secret, job, now, sessions, conversations, messages, nextSession,
            nextConv, nextStamp, issued, req>>

\* the page is loaded: initializeSession reads localStorage
PageOpen ==
    /\ client.pc = "closed"
    /\ client' = Page(IF Truthy(client.stored) THEN "validate" ELSE "create",
                      client.stored, client.nextId, client.loads + 1)
    /\ input' = NoInput
    /\ out' = NoOut
    /\ UNCHANGED server

\* the page is left or reloaded; requests in flight go on at the server
PageClose ==
    /\ client.pc # "closed"
    /\ client' = Page("closed", client.stored, client.nextId, client.loads)
    /\ input' = NoInput
    /\ out' = NoOut
    /\ UNCHANGED server

\* GET /session/:sessionId when validateSession of lib/session throws
ValidateSessionReqFails(sessionId) ==
    /\ out' = Out("validateSession", sessionId, 500, "SESSION_VALIDATE_FAILED",
                  FALSE, 0, 0)
    /\ UNCHANGED <<env, secret, job, now, sessions, conversations, messages,
                   nextSession, nextConv, nextStamp, issued, req>>

\* variant: the stored token is kept when the answer is a server error
InitValidateKeepsOnError(ok) ==
    /\ client.pc = "validate"
    /\ IF ok THEN ValidateSessionReq(client.stored)
             ELSE ValidateSessionReqFails(client.stored)
    /\ client' =
        IF out'.status = 200 /\ out'.valid
        THEN [client EXCEPT !.sessionId = client.stored, !.pc = "conversations"]
        ELSE IF out'.status = 500
        THEN [client EXCEPT !.error = "init", !.pc = "ready",
                            !.isInitializing = FALSE]
        ELSE [client EXCEPT !.stored = Undefined, !.pc = "create"]

\* const validation = await validateSession(storedSessionId): a response
\* that is not ok counts as { valid: false }
InitValidate(ok) ==
    /\ client.pc = "validate"
    /\ IF ok THEN ValidateSessionReq(client.stored)
             ELSE ValidateSessionReqFails(client.stored)
    /\ client' =
        IF out'.status = 200 /\ out'.valid
        THEN [client EXCEPT !.sessionId = client.stored, !.pc = "conversations"]
        \* safeRemoveItem(SESSION_KEY)
        ELSE [client EXCEPT !.stored = Undefined, !.pc = "create"]

Restored(listed) ==
    [i \in 1..Len(listed) |->
        Shown(Id("restored", listed[i].role, i - 1), listed[i].role, listed[i].content)]

\* const { conversations } = await getConversations(storedSessionId)
InitConversations ==
    /\ client.pc = "conversations"
    /\ GetConversations(client.sessionId)
    /\ client' =
        IF out'.status = 200 /\ Len(out'.conversations) > 0
        THEN [client EXCEPT !.conversationId = out'.conversations[1].id,
                            !.messages = Restored(out'.conversations[1].messages),
                            !.pc = "ready", !.isInitializing = FALSE]
        ELSE [client EXCEPT !.pc = "ready", !.isInitializing = FALSE]

\* const session = await createSession(), safeSetItem, setSessionId
InitCreate ==
    /\ client.pc = "create"
    /\ CreateSession
    /\ client' =
        IF out'.status = 200
        THEN [client EXCEPT !.stored = out'.sessionId, !.sessionId = out'.sessionId,
                            !.pc = "ready", !.isInitializing = FALSE]
        ELSE [client EXCEPT !.error = "init", !.pc = "ready",
                            !.isInitializing = FALSE]

\* ChatContainer renders its controls: isInitializing is false
Rendered == client.pc \in {"ready", "sending"}

\* the server takes a request beside the one it still handles
FreeRequest(r) ==
    /\ req[r].pc \in {"idle", "done"}
    /\ r = "r2" => req["r1"].pc \notin {"idle", "done"}

\* sendMessage({ message, sessionId, conversationId: conversationId || undefined })
ChatRequest(content) ==
    Body("object", Msg("string", content), client.sessionId,
         IF Truthy(client.conversationId) THEN client.conversationId ELSE Undefined)

\* the page once handleSend waits for sendMessage
Sending(content, r, retry) ==
    LET id == Id("sent", "user", client.nextId + 1)
    IN  [client EXCEPT !.messages = Append(@, Shown(id, "user", content)),
                       !.isLoading = TRUE,
                       !.error = "",
                       !.failedMessage = NoText,
                       !.nextId = @ + 1,
                       !.inFlight = @ + 1,
                       !.pending = Pending(id, content, client.conversationId, r,
                                           client.messages, retry),
                       !.pc = "sending"]

\* handleSend up to await sendMessage(...); the request arrives at the
\* server or is lost on the way
HandleSend(content, retry, arrives) ==
    /\ Rendered
    /\ IF ~Truthy(client.sessionId)
       THEN /\ client' = [client EXCEPT !.error = "session"]
            /\ UNCHANGED <<server, out>>
       ELSE IF arrives
       THEN \E r \in AllRequests :
            /\ FreeRequest(r)
            /\ ChatStart(r, ChatRequest(content))
            /\ client' = Sending(content, r, retry)
       ELSE /\ client' = Sending(content, "none", retry)
            /\ out' = NoOut
            /\ UNCHANGED server

\* handleRetry
HandleRetry(arrives) ==
    /\ client.failedMessage # NoText
    /\ HandleSend(client.failedMessage, TRUE, arrives)

\* variant: the retry button is shown whenever a text has failed
RetryClickAnyTime(arrives) ==
    /\ client.failedMessage # NoText
    /\ HandleRetry(arrives)

\* the retry button: shown when error && failedMessage, disabled={isLoading}
RetryClick(arrives) ==
    /\ client.error # ""
    /\ client.failedMessage # NoText
    /\ ~client.isLoading
    /\ HandleRetry(arrives)

\* prev.filter((msg) => msg.id !== userMessage.id)
WithoutId(shown, id) == SelectSeq(shown, LAMBDA m : m.id # id)

\* variant: the catch block without the setMessages filter
SendFailedKeepsMessage ==
    [client EXCEPT !.error = "send",
                   !.failedMessage = client.pending.content,
                   !.isLoading = FALSE,
                   !.pending = NoPending,
                   !.inFlight = @ - 1,
                   !.last = "failed",
                   !.pc = "ready"]

\* the catch block and finally of handleSend
SendFailed ==
    [client EXCEPT !.error = "send",
                   !.failedMessage = client.pending.content,
                   !.messages = WithoutId(@, client.pending.id),
                   !.isLoading = FALSE,
                   !.pending = NoPending,
                   !.inFlight = @ - 1,
                   !.last = "failed",
                   !.pc = "ready"]

\* variant: the conversationId of the response is not kept
SendSucceededForgetsId(r) ==
    [client EXCEPT !.messages = Append(@, Shown(Id("sent", "assistant", client.nextId),
                                                "assistant", req[r].reply)),
                   !.isLoading = FALSE,
                   !.pending = NoPending,
                   !.inFlight = @ - 1,
                   !.last = IF client.pending.retry THEN "resent" ELSE "sent",
                   !.pc = "ready"]

\* handleSend after a response that is ok, and finally
SendSucceeded(r) ==
    [client EXCEPT !.conversationId = IF ~Truthy(client.pending.conversationId)
                                      THEN req[r].conv ELSE @,
                   !.messages = Append(@, Shown(Id("sent", "assistant", client.nextId),
                                                "assistant", req[r].reply)),
                   !.isLoading = FALSE,
                   !.pending = NoPending,
                   !.inFlight = @ - 1,
                   !.last = IF client.pending.retry THEN "resent" ELSE "sent",
                   !.pc = "ready"]

\* the response of POST /chat arrives
ReceiveChat ==
    /\ client.pc = "sending"
    /\ client.pending.r \in AllRequests
    /\ req[client.pending.r].pc = "done"
    /\ client' = IF req[client.pending.r].resp.status = 200
                 THEN SendSucceeded(client.pending.r)
                 ELSE SendFailed
    /\ out' = NoOut
    /\ UNCHANGED server

CHAT_TIMEOUT == 60000

DEFAULT_TIMEOUT == 30000

\* variant: the abort of the fetch ends the handler at the server
SendTimesOutCancels ==
    /\ client.pc = "sending"
    /\ client' = SendFailed
    /\ out' = NoOut
    /\ req' = [r \in AllRequests |->
                IF r = client.pending.r /\ req[r].pc # "done"
                THEN [req[r] EXCEPT !.pc = "done", !.resp = Resp(499, "ABORTED")]
                ELSE req[r]]
    /\ UNCHANGED <<env, secret, job, now, sessions, conversations, messages, nextSession,
                   nextConv, nextStamp, issued>>

\* fetch rejects, or CHAT_TIMEOUT passes before the response arrives
SendTimesOut ==
    /\ client.pc = "sending"
    /\ client' = SendFailed
    /\ out' = NoOut
    /\ UNCHANGED server

-----------------------------------------------------------------------------
(* ChatInput.  React runs the handlers of two user events one after the    *)
(* other and renders in between, so a handler reads the state the handler  *)
(* before it left.                                                         *)

SEND_THROTTLE_MS == 1000

\* variant: no throttle
canSendNoThrottle == StrLength(Trim(input.message)) > 0 /\ ~client.isLoading

\* variant: isLoading is not looked at
canSendWhileLoading == StrLength(Trim(input.message)) > 0 /\ ~input.isThrottled

\* const canSend = message.trim().length > 0 && !isLoading && !isThrottled
canSend ==
    /\ StrLength(Trim(input.message)) > 0
    /\ ~client.isLoading
    /\ ~input.isThrottled

\* handleChange, from the textarea (disabled={isLoading})
TypeText(value) ==
    /\ Rendered
    /\ ~client.isLoading
    /\ input' = IF StrLength(value) <= MAX_MESSAGE_LENGTH
                THEN [input EXCEPT !.message = value]
                ELSE input
    /\ UNCHANGED <<server, out, client>>

\* ChatInput.handleSend, from the submit button or the Enter key, when
\* canSend; onSend is ChatContainer's handleSend
InputSend(arrives) ==
    /\ Rendered
    /\ canSend
    /\ HandleSend(Trim(input.message), FALSE, arrives)
    /\ input' = [input EXCEPT !.message = <<>>,
                              !.isThrottled = TRUE,
                              !.timers = Append(@, SEND_THROTTLE_MS),
                              !.sends = @ + 1,
                              !.since = 0]

\* the callback of a setTimeout whose time has passed
TimerFires ==
    /\ \E i \in 1..Len(input.timers) :
        /\ input.timers[i] = 0
        /\ input' = [input EXCEPT
                !.isThrottled = FALSE,
                !.timers = SubSeq(@, 1, i - 1) \o SubSeq(@, i + 1, Len(@))]
    /\ UNCHANGED <<server, out, client>>

Less(ms, by) == IF ms < by THEN 0 ELSE ms - by

\* time passes at the page
Elapse ==
    /\ input.since < SEND_THROTTLE_MS \/ \E i \in 1..Len(input.timers) : input.timers[i] > 0
    /\ input' = [input EXCEPT
            !.since = SEND_THROTTLE_MS - Less(SEND_THROTTLE_MS - @, ClockStep),
            !.timers = [i \in 1..Len(@) |-> Less(@[i], ClockStep)]]
    /\ UNCHANGED <<server, out, client>>

-----------------------------------------------------------------------------
(* The requests the model sends *)

\* a new text for every request, with leading whitespace
NewText == Msg("string", <<Ws(1), Ch(nextStamp + 1)>>)

KnownConversations == {Str("oid", k) : k \in 0..nextConv}

ChatBodies ==
    {Body("object", m, t, c) :
        m \in {NewText}, t \in KnownTokens,
        c \in {Undefined} \cup KnownConversations}
    \cup {Body("object", Msg("string", <<Ws(2)>>), Str("uuid", 0), Undefined),
          Body("unparsable", Msg("undefined", <<>>), Undefined, Undefined)}

\* the well-formed requests
TurnBodies ==
    {Body("object", NewText, t, c) :
        t \in KnownTokens, c \in {Undefined} \cup KnownConversations}

Init ==
    /\ env = EnvVal("int", 1)
    /\ now = 0
    /\ sessions = {}
    /\ conversations = {}
    /\ messages = {}
    /\ nextSession = 0
    /\ nextConv = 0
    /\ nextStamp = 0
    /\ issued = {}
    /\ out = NoOut
    /\ req = [r \in AllRequests |-> Idle]
    /\ secret = Unset
    /\ job = JobIdle
    /\ client = NoPage
    /\ input = NoInput
    /\ tally = NoTally

Next ==
    \/ CreateSession /\ UNCHANGED <<client, input, tally>>
    \/ Tick(MaxTime) /\ UNCHANGED <<client, input, tally>>
    \/ CleanupCascade /\ UNCHANGED <<client, input, tally>>
    \/ CleanupTransaction /\ UNCHANGED <<client, input, tally>>
    \/ \E r \in Requests :
        \/ \E body \in ChatBodies : ChatStart(r, body) /\ UNCHANGED <<client, input, tally>>
        \/ ChatGetSession(r) /\ UNCHANGED <<client, input, tally>>
        \/ ChatConversation(r) /\ UNCHANGED <<client, input, tally>>
        \/ ChatSaveUser(r) /\ UNCHANGED <<client, input, tally>>
        \/ \E ok \in BOOLEAN : ChatGenerate(r, ok) /\ UNCHANGED <<client, input, tally>>
        \/ ChatSaveAssistant(r) /\ UNCHANGED <<client, input, tally>>

Spec == Init /\ [][Next]_vars

(* The session store alone, over every setting of SESSION_EXPIRY_HOURS and *)
(* long enough for the default expiry to pass.                             *)

EnvValues ==
    {EnvVal("unset", 0), EnvVal("empty", 0), EnvVal("int", 2),
     EnvVal("nan", 0), EnvVal("int", 0), EnvVal("int", -5)}

InitSession ==
    /\ env \in EnvValues
    /\ now = 0
    /\ sessions = {}
    /\ conversations = {}
    /\ messages = {}
    /\ nextSession = 0
    /\ nextConv = 0
    /\ nextStamp = 0
    /\ issued = {}
    /\ out = NoOut
    /\ req = [r \in AllRequests |-> Idle]
    /\ secret = Unset
    /\ job = JobIdle
    /\ client = NoPage
    /\ input = NoInput
    /\ tally = NoTally

NextSession ==
    \/ CreateSession /\ UNCHANGED <<client, input, tally>>
    \/ \E sessionId \in KnownTokens : ValidateSessionReq(sessionId) /\ UNCHANGED <<client, input, tally>>
    \/ Tick(MaxSessionTime) /\ UNCHANGED <<client, input, tally>>
    \/ CleanupCascade /\ UNCHANGED <<client, input, tally>>
    \/ CleanupTransaction /\ UNCHANGED <<client, input, tally>>

SpecSession == InitSession /\ [][NextSession]_vars

(* The checks of POST /chat before any I/O, over request bodies of every   *)
(* shape.                                                                  *)

MessageValues ==
    {Msg("undefined", <<>>), Msg("null", <<>>), Msg("number", <<>>),
     Msg("string", <<>>), Msg("string", <<Ws(2)>>), Msg("string", <<Ch(1)>>),
     Msg("string", <<Ws(1), Ch(MAX_MESSAGE_LENGTH - 1)>>),
     Msg("string", <<Ch(MAX_MESSAGE_LENGTH)>>),
     Msg("string", <<Ws(1), Ch(MAX_MESSAGE_LENGTH), Ws(2)>>),
     Msg("string", <<Ch(MAX_MESSAGE_LENGTH + 1)>>),
     Msg("string", <<Ws(1), Ch(MAX_MESSAGE_LENGTH + 1)>>),
     Msg("string", <<Ch(1), Ws(MAX_MESSAGE_LENGTH - 2), Ch(1)>>),
     Msg("string", <<Ch(1), Ws(MAX_MESSAGE_LENGTH - 1), Ch(1)>>)}

SessionIdValues ==
    {Undefined, JsNull, Num(7), Str("empty", 0), Str("other", 0)} \cup KnownTokens

ConversationIdValues ==
    {Undefined, JsNull, Num(7), Str("empty", 0), Str("other", 0), Str("oid", 1)}

ValidationBodies ==
    {Body("object", m, t, c) :
        m \in MessageValues, t \in SessionIdValues, c \in ConversationIdValues}
    \cup {Body(k, Msg("undefined", <<>>), Undefined, Undefined) :
            k \in {"unparsable", "null", "primitive"}}

NextValidate ==
    \E r \in Requests, body \in ValidationBodies :
        ChatStart(r, body) /\ UNCHANGED <<client, input, tally>>

SpecValidate == Init /\ [][NextValidate]_vars

(* Every handler of the API, POST /cleanup under every configuration of    *)
(* its secret.                                                             *)

SecretValues == {Unset, Secret("empty", 0), Secret("text", 1)}

HeaderValues ==
    {NoHeader, Header(TRUE, "", 0), Header(TRUE, "Bearer ", 0),
     Header(TRUE, "Bearer ", 1), Header(TRUE, "Bearer ", 2),
     Header(TRUE, "bearer ", 1)}

QueryValues == {Undefined, Str("empty", 0), Str("other", 0)} \cup KnownTokens

InitApi ==
    /\ env = EnvVal("int", 1)
    /\ now = 0
    /\ sessions = {}
    /\ conversations = {}
    /\ messages = {}
    /\ nextSession = 0
    /\ nextConv = 0
    /\ nextStamp = 0
    /\ issued = {}
    /\ out = NoOut
    /\ req = [r \in AllRequests |-> Idle]
    /\ secret \in SecretValues
    /\ job = JobIdle
    /\ client = NoPage
    /\ input = NoInput
    /\ tally = NoTally

NextApi ==
    \/ nextSession < MaxApiSessions /\ CreateSession /\ UNCHANGED <<client, input, tally>>
    \/ \E sessionId \in KnownTokens : ValidateSessionReq(sessionId) /\ UNCHANGED <<client, input, tally>>
    \/ \E sessionId \in QueryValues : GetConversations(sessionId) /\ UNCHANGED <<client, input, tally>>
    \/ \E header \in HeaderValues : CleanupEndpoint(header) /\ UNCHANGED <<client, input, tally>>
    \/ Tick(MaxTime) /\ UNCHANGED <<client, input, tally>>
    \/ \E r \in Requests :
        \/ \E body \in TurnBodies :
            nextStamp < MaxApiStamp /\ ChatStart(r, body) /\ UNCHANGED <<client, input, tally>>
        \/ ChatGetSession(r) /\ UNCHANGED <<client, input, tally>>
        \/ ChatConversation(r) /\ UNCHANGED <<client, input, tally>>
        \/ ChatSaveUser(r) /\ UNCHANGED <<client, input, tally>>
        \/ \E ok \in BOOLEAN : ChatGenerate(r, ok) /\ UNCHANGED <<client, input, tally>>
        \/ ChatSaveAssistant(r) /\ UNCHANGED <<client, input, tally>>

SpecApi == InitApi /\ [][NextApi]_vars

(* GET /conversations over stores that hold more than one conversation    *)
(* and more messages than the listing takes.  Two sessions were issued at  *)
(* time 0; the first owns conversations 1 and 3, the second conversation   *)
(* 2; conversation 1 got its first message before the others were created  *)
(* and the rest of its n messages after.                                   *)

ListSizes ==
    {0, 1, 2, MAX_MESSAGES_PER_CONVERSATION - 1, MAX_MESSAGES_PER_CONVERSATION,
     MAX_MESSAGES_PER_CONVERSATION + 1, MAX_MESSAGES_PER_CONVERSATION + 2}

TurnRole(k) == IF k % 2 = 1 THEN "user" ELSE "assistant"

ListStore(n) ==
    {MessageRow(Str("oid", 1), TurnRole(k), <<Ch(k)>>, IF k = 1 THEN 1 ELSE k + 4) :
        k \in 1..n}
    \cup {MessageRow(Str("oid", 2), TurnRole(k), <<Ch(k)>>, k + 1) : k \in 1..2}
    \cup {MessageRow(Str("oid", 3), TurnRole(k), <<Ch(k)>>, k + 3) : k \in 1..2}

InitList ==
    /\ env = EnvVal("int", 1)
    /\ now = 0
    /\ sessions = {SessionRow(1, 1), SessionRow(2, 1)}
    /\ conversations =
        {ConversationRow(Str("oid", 1), Str("oid", 1), 1),
         ConversationRow(Str("oid", 2), Str("oid", 2), 2),
         ConversationRow(Str("oid", 3), Str("oid", 1), 3)}
    /\ \E n \in ListSizes :
        /\ messages = ListStore(n)
        /\ nextStamp = n + 4
    /\ nextSession = 2
    /\ nextConv = 3
    /\ issued = {[sessionId |-> Str("uuid", k), createdAt |-> 0, expiresAt |-> 1] :
                    k \in 1..2}
    /\ out = NoOut
    /\ req = [r \in AllRequests |-> Idle]
    /\ secret = Unset
    /\ job = JobIdle
    /\ client = NoPage
    /\ input = NoInput
    /\ tally = NoTally

NextList ==
    \/ \E sessionId \in QueryValues : GetConversations(sessionId) /\ UNCHANGED <<client, input, tally>>
    \/ Tick(MaxTime) /\ UNCHANGED <<client, input, tally>>
    \/ CleanupCascade /\ UNCHANGED <<client, input, tally>>

SpecList == InitList /\ [][NextList]_vars

(* POST /chat with requests that carry an image, its MIME type, both or    *)
(* neither.                                                                *)

ImageBodies ==
    {WithImage(body, d, t) :
        body \in TurnBodies,
        d \in {Undefined, Str("base64", 1)},
        t \in {Undefined, Str("mime", 1)}}

NextImage ==
    \/ nextSession < MaxApiSessions /\ CreateSession /\ UNCHANGED <<client, input, tally>>
    \/ Tick(MaxTime) /\ UNCHANGED <<client, input, tally>>
    \/ \E r \in Requests :
        \/ \E body \in ImageBodies : ChatStart(r, body) /\ UNCHANGED <<client, input, tally>>
        \/ ChatGetSession(r) /\ UNCHANGED <<client, input, tally>>
        \/ ChatConversation(r) /\ UNCHANGED <<client, input, tally>>
        \/ ChatSaveUser(r) /\ UNCHANGED <<client, input, tally>>
        \/ \E ok \in BOOLEAN : ChatGenerate(r, ok) /\ UNCHANGED <<client, input, tally>>
        \/ ChatSaveAssistant(r) /\ UNCHANGED <<client, input, tally>>

SpecImage == Init /\ [][NextImage]_vars

(* One page and the server: every request comes from the page.  The user  *)
(* types a new text at each send; ChatInput hands it to handleSend while   *)
(* nothing is loading.  A request of the page reaches the server only      *)
(* while the server handles no other.                                      *)

Typed == <<Ch(client.nextId + 1)>>

NextClient ==
    \/ client.loads < MaxLoads /\ PageOpen /\ UNCHANGED tally
    \/ PageClose /\ UNCHANGED tally
    \/ \E ok \in BOOLEAN : InitValidate(ok) /\ UNCHANGED <<input, tally>>
    \/ InitConversations /\ UNCHANGED <<input, tally>>
    \/ InitCreate /\ UNCHANGED <<input, tally>>
    \/ \E arrives \in BOOLEAN :
        \/ /\ client.nextId < MaxSends
           /\ ~client.isLoading
           /\ arrives => FreeRequest("r1")
           /\ HandleSend(Typed, FALSE, arrives)
           /\ UNCHANGED <<input, tally>>
        \/ /\ client.nextId < MaxSends
           /\ arrives => FreeRequest("r1")
           /\ RetryClick(arrives)
           /\ UNCHANGED <<input, tally>>
    \/ ReceiveChat /\ UNCHANGED <<input, tally>>
    \/ SendTimesOut /\ UNCHANGED <<input, tally>>
    \/ Tick(MaxTime) /\ UNCHANGED <<client, input, tally>>
    \/ \E r \in AllRequests :
        \/ ChatGetSession(r) /\ UNCHANGED <<client, input, tally>>
        \/ ChatConversation(r) /\ UNCHANGED <<client, input, tally>>
        \/ ChatSaveUser(r) /\ UNCHANGED <<client, input, tally>>
        \/ \E ok \in BOOLEAN : ChatGenerate(r, ok) /\ UNCHANGED <<client, input, tally>>
        \/ ChatSaveAssistant(r) /\ UNCHANGED <<client, input, tally>>

SpecClient == Init /\ [][NextClient]_vars

(* One load of the page, with the controls of ChatInput and the retry      *)
(* button in the user's hands and the timers of ChatInput running.  A      *)
(* request of the page reaches the server only while the server handles    *)
(* no other.                                                               *)

TextValues ==
    {<<Ws(1)>>, <<Ws(1), Ch(client.nextId + 1), Ws(1)>>, <<Ch(MAX_MESSAGE_LENGTH + 1)>>}

NextInput ==
    \/ client.loads = 0 /\ PageOpen /\ UNCHANGED tally
    \/ InitCreate /\ UNCHANGED <<input, tally>>
    \/ \E value \in TextValues : TypeText(value) /\ UNCHANGED tally
    \/ \E arrives \in BOOLEAN :
        \/ /\ client.nextId < MaxInputSends
           /\ arrives => FreeRequest("r1")
           /\ InputSend(arrives)
           /\ UNCHANGED tally
        \/ /\ client.nextId < MaxInputSends
           /\ arrives => FreeRequest("r1")
           /\ RetryClick(arrives)
           /\ UNCHANGED <<input, tally>>
    \/ TimerFires /\ UNCHANGED tally
    \/ Elapse /\ UNCHANGED tally
    \/ ReceiveChat /\ UNCHANGED <<input, tally>>
    \/ SendTimesOut /\ UNCHANGED <<input, tally>>
    \/ \E r \in AllRequests :
        \/ ChatGetSession(r) /\ UNCHANGED <<client, input, tally>>
        \/ ChatConversation(r) /\ UNCHANGED <<client, input, tally>>
        \/ ChatSaveUser(r) /\ UNCHANGED <<client, input, tally>>
        \/ \E ok \in BOOLEAN : ChatGenerate(r, ok) /\ UNCHANGED <<client, input, tally>>
        \/ ChatSaveAssistant(r) /\ UNCHANGED <<client, input, tally>>

SpecInput == Init /\ [][NextInput]_vars

(* One load of the page and the server, which takes a request of the page  *)
(* beside the one it still handles: a send that has timed out at the page  *)
(* goes on at the server while the page sends again.                       *)

NextTimeout ==
    \/ client.loads = 0 /\ PageOpen /\ UNCHANGED tally
    \/ InitCreate /\ UNCHANGED <<input, tally>>
    \/ \E arrives \in BOOLEAN :
        \/ /\ client.nextId < MaxSends
           /\ ~client.isLoading
           /\ HandleSend(Typed, FALSE, arrives)
           /\ UNCHANGED <<input, tally>>
        \/ client.nextId < MaxSends /\ RetryClick(arrives) /\ UNCHANGED <<input, tally>>
    \/ ReceiveChat /\ UNCHANGED <<input, tally>>
    \/ SendTimesOut /\ UNCHANGED <<input, tally>>
    \/ \E r \in AllRequests :
        \/ ChatGetSession(r) /\ UNCHANGED <<client, input, tally>>
        \/ ChatConversation(r) /\ UNCHANGED <<client, input, tally>>
        \/ ChatSaveUser(r) /\ UNCHANGED <<client, input, tally>>
        \/ \E ok \in BOOLEAN : ChatGenerate(r, ok) /\ UNCHANGED <<client, input, tally>>
        \/ ChatSaveAssistant(r) /\ UNCHANGED <<client, input, tally>>

SpecTimeout == Init /\ [][NextTimeout]_vars

(* The same with the page closed and loaded again: sends that succeed,     *)
(* fail or time out, retries, and then the restore of the history.         *)

NextRestore ==
    \/ client.loads < MaxLoads /\ PageOpen /\ UNCHANGED tally
    \/ PageClose /\ UNCHANGED tally
    \/ \E ok \in BOOLEAN : InitValidate(ok) /\ UNCHANGED <<input, tally>>
    \/ InitConversations /\ UNCHANGED <<input, tally>>
    \/ InitCreate /\ UNCHANGED <<input, tally>>
    \/ \E arrives \in BOOLEAN :
        \/ /\ client.nextId < MaxSends
           /\ ~client.isLoading
           /\ HandleSend(Typed, FALSE, arrives)
           /\ UNCHANGED <<input, tally>>
        \/ client.nextId < MaxSends /\ RetryClick(arrives) /\ UNCHANGED <<input, tally>>
    \/ ReceiveChat /\ UNCHANGED <<input, tally>>
    \/ SendTimesOut /\ UNCHANGED <<input, tally>>
    \/ \E r \in AllRequests :
        \/ ChatGetSession(r) /\ UNCHANGED <<client, input, tally>>
        \/ ChatConversation(r) /\ UNCHANGED <<client, input, tally>>
        \/ ChatSaveUser(r) /\ UNCHANGED <<client, input, tally>>
        \/ \E ok \in BOOLEAN : ChatGenerate(r, ok) /\ UNCHANGED <<client, input, tally>>
        \/ ChatSaveAssistant(r) /\ UNCHANGED <<client, input, tally>>

SpecRestore == Init /\ [][NextRestore]_vars

(* Cleanup in steps and with crashes, while nothing else runs: a run       *)
(* begins only when no request is in flight, and no request begins during  *)
(* a run.                                                                  *)

Quiet == \A r \in AllRequests : req[r].pc \in {"idle", "done"}

JobRunning == job.pc \in {"findConversations", "transaction"}

NextCleanup ==
    \/ ~JobRunning /\ nextSession < MaxJobSessions /\ CreateSession /\ UNCHANGED <<client, input, tally>>
    \/ Tick(MaxTime) /\ UNCHANGED <<client, input, tally>>
    \/ Quiet /\ CleanupFindSessions /\ UNCHANGED <<client, input, tally>>
    \/ CleanupFindConversations /\ UNCHANGED <<client, input, tally>>
    \/ CleanupCommit /\ UNCHANGED <<client, input, tally>>
    \/ CleanupCrash /\ UNCHANGED <<client, input, tally>>
    \/ Quiet /\ ~JobRunning /\ CleanupCascade /\ UNCHANGED <<client, input, tally>>
    \/ \E r \in Requests :
        \/ \E body \in TurnBodies :
            ~JobRunning /\ ChatStart(r, body) /\ UNCHANGED <<client, input, tally>>
        \/ ChatGetSession(r) /\ UNCHANGED <<client, input, tally>>
        \/ ChatConversation(r) /\ UNCHANGED <<client, input, tally>>
        \/ ChatSaveUser(r) /\ UNCHANGED <<client, input, tally>>
        \/ \E ok \in BOOLEAN : ChatGenerate(r, ok) /\ UNCHANGED <<client, input, tally>>
        \/ ChatSaveAssistant(r) /\ UNCHANGED <<client, input, tally>>

SpecCleanup == Init /\ [][NextCleanup]_vars

(* Cleanup while a turn is in flight and while another cleanup runs: the   *)
(* transaction variant in steps, and beside it whole runs of either        *)
(* variant at any moment.  Every run's answer and deletions are tallied.   *)

\* one more run has answered or committed
Counted ==
    tally' = Tally(tally.answered + (IF out'.op = "cleanup" THEN out'.count ELSE 0),
                   tally.removed + Cardinality(sessions \ sessions'))

NextRace ==
    \/ nextSession < MaxJobSessions /\ CreateSession /\ UNCHANGED <<client, input, tally>>
    \/ Tick(MaxTime) /\ UNCHANGED <<client, input, tally>>
    \/ CleanupFindSessions /\ Counted /\ UNCHANGED <<client, input>>
    \/ CleanupFindConversations /\ UNCHANGED <<client, input, tally>>
    \/ CleanupCommit /\ Counted /\ UNCHANGED <<client, input>>
    \/ CleanupTransaction /\ Counted /\ UNCHANGED <<client, input>>
    \/ CleanupCascade /\ Counted /\ UNCHANGED <<client, input>>
    \/ \E r \in Requests :
        \/ \E body \in TurnBodies : ChatStart(r, body) /\ UNCHANGED <<client, input, tally>>
        \/ ChatGetSession(r) /\ UNCHANGED <<client, input, tally>>
        \/ ChatConversation(r) /\ UNCHANGED <<client, input, tally>>
        \/ ChatSaveUser(r) /\ UNCHANGED <<client, input, tally>>
        \/ \E ok \in BOOLEAN : ChatGenerate(r, ok) /\ UNCHANGED <<client, input, tally>>
        \/ ChatSaveAssistant(r) /\ UNCHANGED <<client, input, tally>>

SpecRace == Init /\ [][NextRace]_vars

(* Two requests to POST /chat at a time, each with a text of its own, on   *)
(* one session, with no clock and no cleanup.  A request record is taken   *)
(* for a next turn only while the other record has not been taken at all,  *)
(* so that beside a turn on record the other record is that of the turn    *)
(* it overlaps or of the last turn before it.                              *)

IndexOf(r) == IF r = "r1" THEN 1 ELSE 2

TextOf(r) == Msg("string", <<Ch(2 * nextStamp + IndexOf(r))>>)

BodiesOf(r) ==
    {Body("object", TextOf(r), t, c) :
        t \in KnownTokens, c \in {Undefined} \cup KnownConversations}

NextTurns ==
    \/ nextSession < MaxApiSessions /\ CreateSession /\ UNCHANGED <<client, input, tally>>
    \/ \E r \in AllRequests :
        \/ \E body \in BodiesOf(r) :
            /\ req[r].pc = "idle" \/ \A o \in AllRequests \ {r} : req[o].pc = "idle"
            /\ ChatStart(r, body)
            /\ UNCHANGED <<client, input, tally>>
        \/ ChatGetSession(r) /\ UNCHANGED <<client, input, tally>>
        \/ ChatConversation(r) /\ UNCHANGED <<client, input, tally>>
        \/ ChatSaveUser(r) /\ UNCHANGED <<client, input, tally>>
        \/ \E ok \in BOOLEAN : ChatGenerate(r, ok) /\ UNCHANGED <<client, input, tally>>
        \/ ChatSaveAssistant(r) /\ UNCHANGED <<client, input, tally>>

SpecTurns == Init /\ [][NextTurns]_vars

-----------------------------------------------------------------------------
(* Vocabulary of the properties, defined apart from the handlers *)

\* the messages of a conversation, listed by createdAt
Listed(conversationId) ==
    LET M == {m \in messages : m.conversationId = conversationId}
    IN  [i \in 1..Cardinality(M) |->
            CHOOSE m \in M :
                Cardinality({o \in M : o.createdAt < m.createdAt}) = i - 1]

Roles(rows) == [i \in 1..Len(rows) |-> rows[i].role]

Exists(conversationId) == \E c \in conversations : c.id = conversationId

\* r takes a step of its handler
Steps(r) == req'[r] # req[r]

Answered(r, status, code) ==
    /\ req[r].pc = "done"
    /\ req[r].resp = [status |-> status, code |-> code]

AnsweredNext(r, status, code) ==
    /\ req'[r].pc = "done"
    /\ req'[r].resp = [status |-> status, code |-> code]

-----------------------------------------------------------------------------
(* C1: ownership isolation.  When a request that holds a valid session S   *)
(* resolves a conversationId that exists under another session, it is      *)
(* answered 404 CONVERSATION_NOT_FOUND, no conversation is created, no     *)
(* message is appended, and no message of that conversation is loaded or   *)
(* forwarded to the model.                                                 *)
C1_OwnershipIsolation ==
    [][\A r \in AllRequests :
        (/\ req[r].pc = "conversation"
         /\ Steps(r)
         /\ \E c \in conversations :
                /\ c.id = req[r].body.conversationId
                /\ c.sessionId # req[r].session)
        => /\ AnsweredNext(r, 404, "CONVERSATION_NOT_FOUND")
           /\ conversations' = conversations
           /\ messages' = messages
           /\ req'[r].history = <<>>
           /\ req'[r].ctx = <<>>]_vars

C1_Witness ==
    \E r \in AllRequests :
        /\ Answered(r, 404, "CONVERSATION_NOT_FOUND")
        /\ \E c \in conversations, s \in sessions :
            /\ c.id = req[r].body.conversationId
            /\ s.sessionId = req[r].body.sessionId
            /\ now <= s.expiresAt
            /\ c.sessionId # s.id
            /\ messagesOf(c.id) # {}

(* C5: a well-formed request whose token is unknown, or whose session has  *)
(* expired, is answered 401 SESSION_INVALID in both cases.                 *)
C5_UnknownOrExpiredIs401 ==
    [][\A r \in AllRequests :
        (/\ req[r].pc \in {"idle", "done"}
         /\ Steps(r)
         /\ ValidateChat(req'[r].body) = Pass
         /\ \/ ~\E s \in sessions : s.sessionId = req'[r].body.sessionId
            \/ \E s \in sessions :
                s.sessionId = req'[r].body.sessionId /\ now > s.expiresAt)
        => AnsweredNext(r, 401, "SESSION_INVALID")]_vars

C5_Witness ==
    \E r \in AllRequests :
        /\ Answered(r, 401, "SESSION_INVALID")
        /\ \E s \in sessions :
            s.sessionId = req[r].body.sessionId /\ now > s.expiresAt

\* the step that resolves the conversation of a turn
C6_Resolution ==
    \A r \in AllRequests :
        (req[r].pc = "conversation" /\ Steps(r)) =>
            IF req[r].body.conversationId.ty \in {"undefined", "null"}
            THEN /\ \E c \in conversations' \ conversations :
                        /\ conversations' = conversations \cup {c}
                        /\ c.sessionId = req[r].session
                        /\ req'[r].conv = c.id
                 /\ req'[r].created
            ELSE /\ conversations' = conversations
                 /\ req'[r].pc # "done" =>
                        /\ req'[r].conv = req[r].body.conversationId
                        /\ ~req'[r].created

\* the conversation of r after its successful turn
C6_Turn(r) ==
    LET ms == Listed(req[r].conv)
        n == Len(ms)
    IN  /\ n = Len(req[r].history) + 2
        /\ \A i \in 1..(n - 2) :
                /\ ms[i].role = req[r].history[i].role
                /\ ms[i].content = req[r].history[i].content
        /\ ms[n - 1].role = "user"
        /\ ms[n - 1].content = req[r].body.message.runs
        /\ ms[n].role = "assistant"
        /\ ms[n].content = req[r].reply
        /\ req[r].created => n = 2
        /\ Roles(req[r].history) = <<"user", "assistant">>
               => Roles(ms) = <<"user", "assistant", "user", "assistant">>

(* C6: a turn without conversationId creates exactly one conversation,     *)
(* owned by the request's session, and answers its id; a turn with the id  *)
(* of a conversation of the session reuses it and creates none; after a    *)
(* successful turn the conversation's messages by createdAt are those the  *)
(* turn loaded, then its user message, then its reply, so a second         *)
(* successful turn on [user, assistant] leaves                             *)
(* [user, assistant, user, assistant].                                     *)
C6_TwoTurns ==
    /\ [](\A r \in AllRequests :
            (Answered(r, 200, "") /\ Exists(req[r].conv)) => C6_Turn(r))
    /\ [][C6_Resolution]_vars

C6_Witness ==
    \E r \in AllRequests :
        /\ Answered(r, 200, "")
        /\ ~req[r].created
        /\ Exists(req[r].conv)
        /\ Roles(Listed(req[r].conv)) = <<"user", "assistant", "user", "assistant">>

(* C7: the context handed to the model is the conversation's messages      *)
(* persisted before this turn, by ascending createdAt, followed by the     *)
(* current user message, which occurs in it exactly once.                  *)
C7_Context ==
    \A r \in AllRequests :
        (req[r].ctx # <<>> /\ Exists(req[r].conv)) =>
            LET ms == Listed(req[r].conv)
                before == Cardinality({m \in messagesOf(req[r].conv) :
                                          m.createdAt < req[r].stamp})
                ctx == req[r].ctx
                current == [role |-> "user", content |-> req[r].body.message.runs]
            IN  /\ Len(ctx) = before + 1
                /\ \A i \in 1..before :
                        /\ ctx[i].role = ms[i].role
                        /\ ctx[i].content = ms[i].content
                /\ ctx[before + 1] = current
                /\ Cardinality({i \in 1..Len(ctx) : ctx[i] = current}) = 1

C7_Witness ==
    \E r \in AllRequests :
        /\ req[r].pc = "saveAssistant"
        /\ Len(req[r].ctx) = 3
        /\ Exists(req[r].conv)

\* the step in which the model call fails
C8_FailedStep ==
    \A r \in AllRequests :
        (req[r].pc = "generateResponse" /\ Steps(r) /\ req'[r].pc = "done") =>
            /\ req'[r].resp = [status |-> 500, code |-> "CHAT_ERROR"]
            /\ store' = store

\* the user message of r is the last message of its conversation
C8_Dangling(r) ==
    LET ms == Listed(req[r].conv)
    IN  /\ Len(ms) >= 1
        /\ ms[Len(ms)].role = "user"
        /\ ms[Len(ms)].createdAt = req[r].stamp
        /\ ms[Len(ms)].content = req[r].body.message.runs

(* C8: when the model call fails after the user message was persisted the  *)
(* request is answered 500, the failing step deletes nothing, the user     *)
(* message stays the conversation's last message and no assistant message  *)
(* follows it.                                                             *)
C8_ModelFailure ==
    /\ [](\A r \in AllRequests :
            (Answered(r, 500, "CHAT_ERROR") /\ req[r].stamp > 0 /\ Exists(req[r].conv))
                => C8_Dangling(r))
    /\ [][C8_FailedStep]_vars

C8_Witness ==
    \E r \in AllRequests :
        /\ Answered(r, 500, "CHAT_ERROR")
        /\ req[r].stamp > 0
        /\ req[r].created
        /\ Exists(req[r].conv)
        /\ Len(Listed(req[r].conv)) = 1

(* C9: a cleanup run at time now deletes exactly the sessions with         *)
(* expiresAt < now, their conversations and those conversations' messages, *)
(* nothing else (no session that is still valid at now), and answers the   *)
(* number of sessions it deleted.                                          *)
C9_CleanupExact ==
    [][out'.op = "cleanup" =>
        LET gone == {s \in sessions : s.expiresAt < now}
            goneIds == {s.id : s \in gone}
            goneConvs == {c \in conversations : c.sessionId \in goneIds}
        IN  /\ sessions' = sessions \ gone
            /\ \A s \in sessions : now <= s.expiresAt => s \in sessions'
            /\ conversations' = conversations \ goneConvs
            /\ messages' = {m \in messages :
                               \A c \in goneConvs : m.conversationId # c.id}
            /\ out'.count = Cardinality(gone)
            /\ out'.count = Cardinality(sessions) - Cardinality(sessions')]_vars

C9_Witness ==
    /\ out.op = "cleanup"
    /\ out.count = 1
    /\ sessions # {}
    /\ nextConv >= 1 /\ conversations = {}
    /\ nextStamp >= 2 /\ messages = {}

(* C10: a cleanup run directly after a cleanup run answers 0 and leaves    *)
(* the store as the first run left it.                                     *)
C10_CleanupIdempotent ==
    [][(out.op = "cleanup" /\ out'.op = "cleanup") =>
        /\ out'.count = 0
        /\ store' = store]_vars

C10_Witness ==
    /\ out.op = "cleanup"
    /\ out.count = 0
    /\ nextSession > 0
    /\ sessions = {}

(* C11: with no other operation running during a cleanup run, and the run  *)
(* crashing at any point, no session is gone while a conversation of it    *)
(* exists, and no conversation is gone while a message of it exists.       *)
C11_NoOrphans ==
    /\ \A c \in conversations : \E s \in sessions : s.id = c.sessionId
    /\ \A m \in messages : \E c \in conversations : c.id = m.conversationId

\* a run that had found an expired session with a conversation and messages
\* has crashed, and a later run has deleted them
C11_Witness ==
    /\ job.pc = "crashed"
    /\ \E s \in sessions, c \in conversations, m \in messages :
        /\ s.expiresAt < now
        /\ c.sessionId = s.id
        /\ m.conversationId = c.id

\* what POST /cleanup is to answer, from the configuration and the header
C12_Decision(header) ==
    IF secret.k = "unset" \/ (secret.k = "empty")
    THEN 503
    ELSE IF ~header.present \/ header.prefix # "Bearer "
    THEN 401
    ELSE IF header.rest # secret.n
    THEN 403
    ELSE 200

(* C12: POST /cleanup answers 503 when no secret is configured whatever    *)
(* the header, else 401 when the header is absent or does not start with   *)
(* "Bearer ", else 403 when the bearer value is not the secret, else 200   *)
(* with the number of sessions deleted; only in the last case is anything  *)
(* deleted, in the others the store is left as it was.                     *)
C12_CleanupAuthOrder ==
    [][out'.op = "POST /cleanup" =>
        /\ out'.status = C12_Decision(out'.header)
        /\ out'.status # 200 => store' = store
        /\ out'.status = 200 =>
            /\ out'.count = Cardinality(sessions) - Cardinality(sessions')
            /\ sessions' = {s \in sessions : ~(s.expiresAt < now)}]_vars

\* the right bearer value was presented and a session with a conversation
\* was deleted
C12_Witness ==
    /\ out.op = "POST /cleanup"
    /\ out.status = 200
    /\ out.count = 1
    /\ out.header = Header(TRUE, "Bearer ", secret.n)
    /\ nextConv >= 1 /\ conversations = {}

\* SESSION_EXPIRY_HOURS is set and parseInt reads no number, or one <= 0
C13_BadSetting == env.k = "nan" \/ (env.k = "int" /\ env.n <= 0)

C14_AsIssued ==
    \A s \in sessions : \E i \in issued :
        i.sessionId = s.sessionId /\ i.expiresAt = s.expiresAt

\* a step keeps every session row, or is a cleanup that removes rows whose
\* expiresAt has passed; a new row has a new token
C14_Frame ==
    /\ \A s \in sessions :
        \/ s \in sessions'
        \/ /\ out'.op = "POST /cleanup"
           /\ s.expiresAt < now
           /\ \A t \in sessions' : t.sessionId # s.sessionId /\ t.id # s.id
    /\ \A t \in sessions' \ sessions :
        /\ out'.op = "createSession"
        /\ \A s \in sessions : t.sessionId # s.sessionId /\ t.id # s.id

(* C14: no operation changes the token or expiresAt of an existing         *)
(* session: a chat turn does not extend it, validating an expired session  *)
(* does not delete it, and a session disappears only in a cleanup run at a *)
(* time after its expiresAt.                                               *)
C14_SessionsImmutable == []C14_AsIssued /\ [][C14_Frame]_vars

\* an expired session that has had a chat turn is presented for validation,
\* found invalid, and is still stored
C14_Witness ==
    /\ out.op = "validateSession"
    /\ ~out.valid
    /\ \E s \in sessions, c \in conversations :
        /\ s.sessionId = out.sessionId
        /\ now > s.expiresAt
        /\ c.sessionId = s.id
        /\ Roles(Listed(c.id)) = <<"user", "assistant">>

\* the messages of a conversation are listed in non-decreasing createdAt
C15_Ordered ==
    \A c \in conversations :
        LET ms == Listed(c.id)
        IN  \A i, j \in 1..Len(ms) : i < j => ms[i].createdAt <= ms[j].createdAt

\* a step leaves the list of a conversation that exists after it as it was,
\* or adds one message at its end (the lists are read from the messages, so
\* a step that leaves the messages alone leaves every list as it was)
C15_Append ==
    messages' # messages =>
        \A c \in conversations \cap conversations' :
            LET before == Listed(c.id)
                after == Listed(c.id)'
            IN  /\ Len(before) <= Len(after)
                /\ Len(after) <= Len(before) + 1
                /\ SubSeq(after, 1, Len(before)) = before
                /\ \A m \in messages' \ messages :
                        m.conversationId = c.id => after[Len(after)] = m

(* C15: for every conversation that exists, its messages listed by         *)
(* createdAt are in non-decreasing order, a newly appended message is the  *)
(* last of the list, and the list before an operation is a prefix of the   *)
(* list after it: no message is changed, moved or deleted on its own.      *)
C15_AppendOnly == []C15_Ordered /\ [][C15_Append]_vars

\* a conversation that has had a failed turn and then a successful one
C15_Witness ==
    \E c \in conversations :
        Roles(Listed(c.id)) = <<"user", "user", "assistant">>

\* the listed messages of a conversation are its earliest ones, at most 100,
\* in ascending createdAt
C16_Messages(id, listed) ==
    LET stored == {m \in messages : m.conversationId = id}
    IN  /\ Len(listed) <= 100
        /\ Len(listed) = IF Cardinality(stored) < 100 THEN Cardinality(stored) ELSE 100
        /\ \A i \in 1..Len(listed) :
            /\ \E m \in stored :
                /\ m.createdAt = listed[i].createdAt
                /\ m.role = listed[i].role
                /\ m.content = listed[i].content
            /\ \A j \in 1..Len(listed) :
                i < j => listed[i].createdAt < listed[j].createdAt
        /\ \A m \in stored :
            (\A i \in 1..Len(listed) : listed[i].createdAt # m.createdAt) =>
                \A i \in 1..Len(listed) : listed[i].createdAt < m.createdAt

C17_ImageOf(x) ==
    IF {"imageData", "imageMimeType"} \subseteq DOMAIN x
    THEN <<x.imageData, x.imageMimeType>>
    ELSE <<Undefined, Undefined>>

\* the request carries an image: payload and MIME type are both present
C17_Carries(body) ==
    body.imageData.ty = "string" /\ body.imageMimeType.ty = "string"

(* C17: when a request carries an image (payload and MIME type), both are  *)
(* handed unchanged to the model with the message and are stored with the  *)
(* user message, so that they are part of the history of later turns; a    *)
(* request with only one of the two is treated as carrying none.           *)
C17_ImagePassthrough ==
    \A r \in AllRequests :
        req[r].ctx # <<>> =>
            LET want == IF C17_Carries(req[r].body)
                        THEN C17_ImageOf(req[r].body)
                        ELSE <<Undefined, Undefined>>
            IN  /\ C17_ImageOf(req[r].ctx[Len(req[r].ctx)]) = want
                /\ \A m \in messages :
                    m.createdAt = req[r].stamp => C17_ImageOf(m) = want

\* initializeSession has the answer about the stored token
C18_Decides == client.pc = "validate" /\ client'.pc \notin {"validate", "closed"}

(* C18: when the page initialises with a stored token whose session is     *)
(* still valid on the server, it reuses the token and keeps it stored;     *)
(* when the session is not found or expired it removes the token and goes  *)
(* on to create a session; a session is created only while no token is    *)
(* stored, and the new token is then stored and used.                      *)
C18_SessionInit ==
    [][/\ C18_Decides =>
           IF validateSession(client.stored).valid
           THEN /\ client'.stored = client.stored
                /\ client'.sessionId = client.stored
                /\ client'.pc = "conversations"
           ELSE /\ client'.stored = Undefined
                /\ client'.pc = "create"
       /\ nextSession' # nextSession =>
           /\ ~Truthy(client.stored)
           /\ client'.stored = Str("uuid", nextSession')
           /\ client'.sessionId = client'.stored]_vars

(* the same, for the page loads at which GET /session/:sessionId answers   *)
(* without a server error                                                  *)
C18_SessionInitWhenAnswered ==
    [][/\ (C18_Decides /\ out'.status # 500) =>
           IF validateSession(client.stored).valid
           THEN /\ client'.stored = client.stored
                /\ client'.sessionId = client.stored
                /\ client'.pc = "conversations"
           ELSE /\ client'.stored = Undefined
                /\ client'.pc = "create"
       /\ nextSession' # nextSession =>
           /\ ~Truthy(client.stored)
           /\ client'.stored = Str("uuid", nextSession')
           /\ client'.sessionId = client'.stored]_vars

\* a valid stored token was reused, and at another load an expired one replaced
C18_Reused ==
    /\ client.pc = "conversations"
    /\ validateSession(client.stored).valid

C18_Replaced ==
    /\ client.pc = "ready"
    /\ client.stored = Str("uuid", 2)
    /\ client.sessionId = client.stored

\* a send ends: sendMessage resolved or rejected
C19_Ends == client.pc = "sending" /\ client'.pc = "ready"

\* the response of the send in flight has arrived and is ok
C19_Answered ==
    /\ client.pending.r \in AllRequests
    /\ req[client.pending.r].pc = "done"
    /\ req[client.pending.r].resp.status = 200

\* the retry button is offered: error && failedMessage
C19_RetryOffered == client.error # "" /\ client.failedMessage # NoText

C19_Step ==
    /\ (C19_Ends /\ ~C19_Answered) => client'.error # ""
    /\ (C19_Ends /\ client'.error # "") =>
           /\ client'.messages = client.pending.before
           /\ client'.failedMessage = client.pending.content
    /\ (client.pc = "ready" /\ client'.pc = "sending" /\ client'.pending.retry) =>
           /\ C19_RetryOffered
           /\ client'.pending.content = client.failedMessage
           /\ client'.messages =
                  Append(client.messages,
                         Shown(client'.pending.id, "user", client.failedMessage))
           /\ client'.pending.r \in AllRequests =>
                  req'[client'.pending.r].body.message =
                      Msg("string", client.failedMessage)
    /\ (C19_Ends /\ client.pending.retry /\ client'.error = "") =>
           /\ client'.failedMessage = NoText
           /\ client'.messages =
                  client.pending.before \o
                  <<Shown(client.pending.id, "user", client.pending.content),
                    Shown(Id("sent", "assistant", client.nextId), "assistant",
                          req[client.pending.r].reply)>>

(* C19: a send that fails leaves the list as it was before the send, with  *)
(* the error shown and the failed text kept; the retry sends that text as  *)
(* a new turn; after a retry that succeeds no error and no retry are       *)
(* shown and the list ends with that user message and the reply.           *)
C19_Retry == [][C19_Step]_vars

\* a send failed, was retried, and the retry succeeded
C19_Witness ==
    /\ client.last = "resent"
    /\ ~C19_RetryOffered
    /\ Len(client.messages) >= 2
    /\ client.messages[Len(client.messages)].role = "assistant"

\* a send leaves for the server
C20_Sends == client.pc = "ready" /\ client'.pc = "sending"

C20_Step ==
    /\ (C20_Sends /\ client'.pending.r \in AllRequests) =>
           req'[client'.pending.r].body.conversationId =
               IF Truthy(client.conversationId) THEN client.conversationId
               ELSE Undefined
    /\ (C19_Ends /\ client'.error = "" /\ ~Truthy(client.conversationId)) =>
           /\ client'.conversationId = req[client.pending.r].conv
           /\ Truthy(client'.conversationId)
    /\ (Truthy(client.conversationId) /\ client'.pc # "closed") =>
           client'.conversationId = client.conversationId

(* C20: a send of a page that holds no conversation id carries none; the   *)
(* first turn that succeeds gives the page the id the server returned, and *)
(* every later send, retries included, carries it; while the page is open  *)
(* the held id does not change.                                            *)
C20_Continuity == [][C20_Step]_vars

\* the second turn of a page is being sent with the id of its first
C20_Witness ==
    /\ client.pc = "sending"
    /\ client.last \in {"sent", "resent"}
    /\ client.pending.r \in AllRequests
    /\ Truthy(client.conversationId)
    /\ req[client.pending.r].body.conversationId = client.conversationId
    /\ \E m \in messages :
           m.conversationId = client.conversationId /\ m.role = "assistant"

\* ChatInput calls onSend
C21_OnSend == input'.sends = input.sends + 1

\* the throttle's timer and flag go together, and the timer runs out when
\* SEND_THROTTLE_MS have passed since the send
C21_Throttle ==
    /\ input.isThrottled <=> input.timers # <<>>
    /\ Len(input.timers) <= 1
    /\ \A i \in 1..Len(input.timers) :
           input.timers[i] = SEND_THROTTLE_MS - input.since

C21_Step ==
    /\ C21_OnSend =>
           /\ StrLength(Trim(input.message)) > 0
           /\ ~client.isLoading
           /\ ~input.isThrottled
           /\ input.sends > 0 => input.since >= SEND_THROTTLE_MS
           /\ client'.pending.content = Trim(input.message)
    /\ (input'.isThrottled /\ ~input.isThrottled) => C21_OnSend
    /\ (input.isThrottled /\ ~input'.isThrottled /\ client'.pc # "closed") =>
           input.since >= SEND_THROTTLE_MS

\* sending is possible: the submit button or Enter calls onSend
C21_CanSendAgain ==
    (/\ input.sends > 0
     /\ ~input.isThrottled
     /\ ~client.isLoading
     /\ Rendered
     /\ client.nextId < MaxInputSends
     /\ StrLength(Trim(input.message)) > 0)
    => ENABLED (\E arrives \in BOOLEAN : InputSend(arrives))

(* C21: ChatInput calls onSend only with a text whose trimmed form is not   *)
(* empty, while nothing is loading and no throttle is active; after a call *)
(* there is none until SEND_THROTTLE_MS have passed, the throttle ends when *)
(* its timer fires, which is not before that time, and from then on, with  *)
(* nothing loading, a text can be sent again.                              *)
C21_SendThrottle == []C21_Throttle /\ []C21_CanSendAgain /\ [][C21_Step]_vars

\* a second text is sent after the throttle of the first has ended
C21_Witness ==
    /\ input.sends = 2
    /\ input.isThrottled
    /\ client.isLoading

\* the request has been answered with one of the rejections
C22_Rejected(r) ==
    /\ req[r].pc = "done"
    /\ req[r].resp.status \in {400, 401, 404}

\* what a rejected request has done: nothing written, the model not called,
\* and no query at all when the input was what failed
C22_Trace ==
    \A r \in AllRequests :
        C22_Rejected(r) =>
            /\ ~req[r].created
            /\ req[r].stamp = 0
            /\ req[r].ctx = <<>>
            /\ req[r].reply = <<>>
            /\ req[r].resp.status = 400 => req[r].reads = 0
            /\ req[r].resp.status = 401 => req[r].reads = 1
            /\ req[r].resp.status = 404 => req[r].reads \in {2, 3}

\* each step of a request that ends rejected leaves the store as it was
C22_Frame ==
    \A r \in AllRequests :
        (Steps(r) /\ req'[r].pc \in {"done", "getSessionById", "conversation"}
                  /\ req'[r].resp.status \in {0, 400, 401, 404})
            => UNCHANGED store

(* C22: a POST /chat request answered 400, 401 or 404 has created no        *)
(* conversation, appended no message and not called the model, and no step *)
(* it made changed the store; a request answered 400 made no query.        *)
C22_RejectedChangesNothing == []C22_Trace /\ [][C22_Frame]_vars

\* requests rejected for their input, their session, and their conversation
C22_Witness ==
    /\ \E r \in AllRequests : C22_Rejected(r) /\ req[r].resp.code = "CONVERSATION_NOT_FOUND"
    /\ \E c \in conversations : TRUE

C22_WitnessInput ==
    \E r \in AllRequests :
        /\ C22_Rejected(r)
        /\ req[r].resp.code = "EMPTY_MESSAGE"
        /\ sessions # {}

-----------------------------------------------------------------------------
(* Cleanup beside turns in flight and beside another cleanup *)

Orphans ==
    {c \in conversations : c.sessionId \notin {s.id : s \in sessions}}
    \cup {m \in messages : m.conversationId \notin {c.id : c \in conversations}}

(* C23: when a cleanup has run beside turns that had passed session        *)
(* validation before their session expired, and the run and all the turns  *)
(* have finished, there is no conversation whose session is gone and no    *)
(* message whose conversation is gone.                                     *)
C23_NoOrphansWhenFinished == (Quiet /\ ~JobRunning) => Orphans = {}

\* the same after one more whole cleanup run: a later run removes no orphan
C23_OrphansAreCleanedLater ==
    (Quiet /\ ~JobRunning /\ out.op = "cleanup") => Orphans = {}

(* C24: over all cleanup runs, overlapping ones included, the deletedCount *)
(* values answered add up to the number of sessions removed, whenever no   *)
(* run is between its findMany and its transaction.                        *)
C24_CountsAddUp == ~JobRunning => tally.answered = tally.removed

\* each removed session is removed only when expired, and only once
C24_ExpiredOnlyOnce ==
    [][/\ \A s \in sessions \ sessions' : s.expiresAt < now
       /\ sessions' \subseteq sessions \/ sessions \subseteq sessions']_vars

SessionNotFound == Resp(404, "SESSION_NOT_FOUND")

\* the load of request r answers SessionNotFound: the token was issued, its
\* expiresAt has passed, a cleanup has removed a session and the row is gone
C27_Load ==
    \A r \in AllRequests :
        (req[r].pc = "getSessionById" /\ req'[r].resp = SessionNotFound)
        => /\ findUnique(req[r].body.sessionId) = {}
           /\ tally.removed > 0
           /\ \E i \in issued :
                /\ i.sessionId = req[r].body.sessionId
                /\ i.expiresAt < now

\* a request is past validation only with a token that was issued and was
\* not expired when it was validated
C27_Validated ==
    \A r \in AllRequests :
        req[r].pc = "getSessionById"
        => \E i \in issued : i.sessionId = req[r].body.sessionId

\* as long as no cleanup has removed a session no request is answered
\* SessionNotFound
C27_NoneWithoutCleanup ==
    tally.removed = 0 => \A r \in AllRequests : req[r].resp # SessionNotFound

(* C27: POST /chat answers 404 SessionNotFound after a passed validation   *)
(* only when a cleanup has deleted the session between validateSession and *)
(* getSessionById; while no cleanup has deleted a session it never does.   *)
C27_SessionNotFound ==
    []C27_Validated /\ []C27_NoneWithoutCleanup /\ [][C27_Load]_vars

\* a turn was answered SessionNotFound
C27_Witness ==
    \E r \in AllRequests :
        /\ req[r].pc = "done"
        /\ req[r].resp = SessionNotFound
        /\ req[r].reads = 2
        /\ tally.removed = 1

-----------------------------------------------------------------------------
(* Two turns at a time *)

\* no other request names the conversation of request r
OnItsOwn(r) == \A o \in AllRequests \ {r} : req[o].conv # req[r].conv

\* the rows of r's conversation written before r's user message, and from it on
Before(r) ==
    OrderByCreatedAtAsc({m \in messagesOf(req[r].conv) : m.createdAt < req[r].stamp})

From(r) ==
    OrderByCreatedAtAsc({m \in messagesOf(req[r].conv) : m.createdAt >= req[r].stamp})

Replied(r) == req[r].pc = "done" /\ req[r].resp = Resp(200, "")

\* a turn whose conversation no other request names has read all that was
\* before its message, hands the model that and its message, and leaves its
\* message and its reply at the end of the conversation
C25_Independent ==
    \A r \in AllRequests :
        (req[r].stamp > 0 /\ OnItsOwn(r))
        => /\ req[r].history = HistoryOf(Before(r))
           /\ req[r].ctx # <<>>
                => req[r].ctx = HistoryOf(Before(r))
                                    \o <<Entry("user", req[r].body.message.runs)>>
           /\ Replied(r)
                => /\ Len(From(r)) = 2
                   /\ From(r)[1] = MessageRow(req[r].conv, "user",
                                              req[r].body.message.runs, req[r].stamp)
                   /\ From(r)[2].role = "assistant"
                   /\ From(r)[2].content = ReplyText(req[r].ctx)

\* an answered turn's user message is stored, and its reply after it
C25_OwnOrder ==
    \A r \in AllRequests :
        Replied(r)
        => \E u, a \in messagesOf(req[r].conv) :
            /\ u.role = "user"
            /\ u.createdAt = req[r].stamp
            /\ u.content = req[r].body.message.runs
            /\ a.role = "assistant"
            /\ a.content = req[r].reply
            /\ u.createdAt < a.createdAt

(* C25: two turns at a time on different conversations each read, hand to  *)
(* the model and leave behind what they would alone; on one conversation   *)
(* each turn's user message is stored before its own reply, and nothing    *)
(* else is ordered.                                                        *)
C25_ConcurrentTurns == []C25_Independent /\ []C25_OwnOrder

\* two turns on one conversation, both answered, stored as user, user,
\* assistant, assistant; neither model call saw the other turn's message
C25_Witness ==
    /\ Replied("r1") /\ Replied("r2")
    /\ req["r1"].conv = req["r2"].conv
    /\ Roles(Listed(req["r1"].conv)) = <<"user", "user", "assistant", "assistant">>
    /\ Len(req["r1"].ctx) = 1
    /\ Len(req["r2"].ctx) = 1

\* two turns at a time on two conversations, both answered
C25_WitnessApart ==
    /\ Replied("r1") /\ Replied("r2")
    /\ req["r1"].conv # req["r2"].conv
    /\ req["r1"].stamp < req["r2"].stamp
    /\ \E m \in messagesOf(req["r1"].conv) : m.createdAt > req["r2"].stamp

-----------------------------------------------------------------------------
(* The page gives up waiting *)

\* the send of the page ends by the timeout while the server handles it
C26_TimesOut ==
    /\ client.pc = "sending"
    /\ client'.pc = "ready"
    /\ client.pending.r \in AllRequests
    /\ req[client.pending.r].pc # "done"

\* the next step of the handler of request r
ChatStep(r) ==
    \/ ChatGetSession(r)
    \/ ChatConversation(r)
    \/ ChatSaveUser(r)
    \/ \E ok \in BOOLEAN : ChatGenerate(r, ok)
    \/ ChatSaveAssistant(r)

\* a handler that has begun can go on, whatever the page does
C26_Runs == \A r \in AllRequests : req[r].pc \notin {"idle", "done"} => ENABLED ChatStep(r)

C26_Step ==
    /\ C26_TimesOut
        => /\ client'.error # ""
           /\ client'.failedMessage = client.pending.content
           /\ client'.conversationId = client.conversationId
           /\ client'.messages = client.pending.before
           /\ req' = req
           /\ messages' = messages /\ conversations' = conversations
    /\ \A r \in AllRequests :
        (req[r].pc = "saveUser" /\ req'[r].pc = "generateResponse")
        => /\ Cardinality(messages') = Cardinality(messages) + 1
           /\ messages \subseteq messages'
           /\ \E m \in messages' \ messages :
                /\ m.role = "user"
                /\ m.content = req[r].body.message.runs
    /\ \A r \in AllRequests :
        (req[r].pc = "saveAssistant" /\ req'[r].pc = "done")
        => /\ req'[r].resp.status = 200
           /\ \E m \in messages' \ messages :
                /\ m.role = "assistant"
                /\ m.conversationId = req[r].conv

(* C26: when the page's wait for POST /chat ends by the timeout while the  *)
(* handler runs, the page shows an error, keeps the text for a retry, and  *)
(* takes neither a reply nor a conversation id from the turn; the handler  *)
(* is not touched, can always go on, and at its end appends the reply; the *)
(* handler of a retry stores a user message of its own.                    *)
C26_TimeoutLeavesServer == []C26_Runs /\ [][C26_Step]_vars

\* the turn that timed out has stored its user message and its reply, the
\* page holds neither and no conversation id, and the retry has stored the
\* same text once more
C26_Witness ==
    /\ CHAT_TIMEOUT > DEFAULT_TIMEOUT
    /\ client.pending.retry
    /\ ~Truthy(client.pending.conversationId)
    /\ client.pending.before = <<>>
    /\ \E u, v, a \in messages :
        /\ u.role = "user" /\ v.role = "user" /\ a.role = "assistant"
        /\ u # v
        /\ u.content = v.content
        /\ a.conversationId = u.conversationId
        /\ \E r \in AllRequests : req[r].stamp = v.createdAt /\ r = client.pending.r

-----------------------------------------------------------------------------
(* One request of the page at a time *)

\* while a call of sendMessage is awaited neither control starts a send
C28_ControlsOff ==
    client.inFlight > 0
    => /\ client.isLoading
       /\ ~canSend
       /\ ~ENABLED (\E arrives \in BOOLEAN : InputSend(arrives))
       /\ ~ENABLED (\E arrives \in BOOLEAN : RetryClick(arrives))

\* a call of sendMessage begins only when none is awaited
C28_Starts == client'.inFlight > client.inFlight => client.inFlight = 0

(* C28: the page never awaits more than one call of sendMessage: from the  *)
(* start of a send or retry until its answer or failure is handled, the    *)
(* send control and the retry control start nothing, whatever is typed     *)
(* and whichever timers have fired.                                        *)
C28_OneInFlight ==
    [](client.inFlight <= 1) /\ []C28_ControlsOff /\ [][C28_Starts]_vars

\* a retry is awaited, a text is in the textarea and the throttle of the
\* send before has run out: only isLoading holds the send control
C28_Witness ==
    /\ client.inFlight = 1
    /\ client.pending.retry
    /\ StrLength(Trim(input.message)) > 0
    /\ ~input.isThrottled
    /\ input.sends > 0

-----------------------------------------------------------------------------
(* The history a page restores *)

\* the replies stored under the session of a token: one for every turn of
\* the session that was answered 200
RepliesOf(sessionId) ==
    {m \in messages :
        /\ m.role = "assistant"
        /\ \E c \in conversations, s \in sessions :
            /\ c.id = m.conversationId
            /\ c.sessionId = s.id
            /\ s.sessionId = sessionId}

LastReplyOf(sessionId) ==
    CHOOSE m \in RepliesOf(sessionId) :
        \A o \in RepliesOf(sessionId) : o.createdAt <= m.createdAt

\* the page takes the answer of GET /conversations
C29_Restore ==
    /\ client.pc = "conversations"
    /\ client'.pc = "ready"
    /\ out'.status = 200

(* C29: a page that loads with a stored token of a valid session, while no *)
(* turn is in flight, takes as its conversation the one of the session's   *)
(* latest turn that was answered 200, and as its messages the stored       *)
(* messages of that conversation in their order.                           *)
C29_RestoresLatestTurn ==
    [][(C29_Restore /\ Quiet /\ RepliesOf(client.sessionId) # {})
       => /\ client'.conversationId = LastReplyOf(client.sessionId).conversationId
          /\ client'.messages =
                Restored(OrderByCreatedAtAsc(
                    messagesOf(LastReplyOf(client.sessionId).conversationId)))]_vars

\* the conversations stored under the session of a token
ConversationsOf(sessionId) ==
    {c \in conversations :
        \E s \in sessions : s.sessionId = sessionId /\ c.sessionId = s.id}

\* what the page does take: the conversation written last, with its messages
C29_RestoresLatestConversation ==
    [][(C29_Restore /\ ConversationsOf(client.sessionId) # {})
       => LET latest == CHOOSE c \in ConversationsOf(client.sessionId) :
                 \A o \in ConversationsOf(client.sessionId) : o.updatedAt <= c.updatedAt
          IN  /\ client'.conversationId = latest.id
              /\ client'.messages = Restored(OrderByCreatedAtAsc(messagesOf(latest.id)))]_vars

-----------------------------------------------------------------------------
(* The text that is stored *)

(* C30: every stored user message, and the text of every call of the       *)
(* model, is the trimmed text of its request: it has no whitespace at its  *)
(* ends and between 1 and MAX_MESSAGE_LENGTH code units.                   *)
C30_StoredTrimmed ==
    /\ \A m \in messages :
        m.role = "user"
        => /\ m.content = Trim(m.content)
           /\ StrLength(m.content) \in 1..MAX_MESSAGE_LENGTH
    /\ \A r \in AllRequests :
        req[r].ctx # <<>>
        => req[r].ctx[Len(req[r].ctx)].content = Trim(req[r].body.message.runs)

\* what does hold: the stored text is the text of the request as sent, and
\* its trimmed part has between 1 and MAX_MESSAGE_LENGTH code units
C30_StoredAsSent ==
    /\ \A m \in messages :
        m.role = "user" => StrLength(Trim(m.content)) \in 1..MAX_MESSAGE_LENGTH
    /\ \A r \in AllRequests :
        req[r].ctx # <<>>
        => req[r].ctx[Len(req[r].ctx)].content = req[r].body.message.runs

-----------------------------------------------------------------------------
(* The rules of POST /chat's input, each stated on its own *)

RuleOrder ==
    <<"INVALID_REQUEST_BODY", "MISSING_MESSAGE", "EMPTY_MESSAGE", "MESSAGE_TOO_LONG",
      "MISSING_SESSION_ID", "INVALID_SESSION_ID_FORMAT",
      "INVALID_CONVERSATION_ID_FORMAT">>

\* the code units of a text between its first and its last non-whitespace run
TrimmedLength(runs) ==
    LET idx == {i \in 1..Len(runs) : runs[i].k = "ch"}
        RECURSIVE Sum(_)
        Sum(S) == IF S = {} THEN 0
                  ELSE LET i == CHOOSE x \in S : TRUE IN runs[i].n + Sum(S \ {i})
    IN  IF idx = {} THEN 0
        ELSE Sum({i \in 1..Len(runs) :
                    /\ \E a \in idx : a <= i
                    /\ \E b \in idx : i <= b})

IsText(m) == m.ty = "string" /\ m.runs # <<>>

Violates(body, rule) ==
    LET m == IF body.kind = "object" THEN body.message ELSE Msg("undefined", <<>>)
        t == IF body.kind = "object" THEN body.sessionId ELSE Undefined
        c == IF body.kind = "object" THEN body.conversationId ELSE Undefined
    IN  CASE rule = "INVALID_REQUEST_BODY" -> body.kind = "unparsable"
          [] rule = "MISSING_MESSAGE" -> ~IsText(m)
          [] rule = "EMPTY_MESSAGE" -> IsText(m) /\ TrimmedLength(m.runs) = 0
          [] rule = "MESSAGE_TOO_LONG" ->
                IsText(m) /\ TrimmedLength(m.runs) > MAX_MESSAGE_LENGTH
          [] rule = "MISSING_SESSION_ID" ->
                t.ty \in {"undefined", "null"} \/ t.ty # "string" \/ t.fmt = "empty"
          [] rule = "INVALID_SESSION_ID_FORMAT" -> t.ty = "string" /\ t.fmt # "uuid"
          [] rule = "INVALID_CONVERSATION_ID_FORMAT" ->
                c.ty \notin {"undefined", "null"} /\ ~(c.ty = "string" /\ c.fmt = "oid")

FirstViolated(body) ==
    LET bad == {i \in 1..Len(RuleOrder) : Violates(body, RuleOrder[i])}
    IN  IF bad = {} THEN 0 ELSE CHOOSE i \in bad : \A j \in bad : i <= j

(* C2: a request that violates one or more input rules is answered with    *)
(* the error of the earliest violated rule in the order malformed body,    *)
(* missing message, empty message, too long, missing session id, bad       *)
(* session id format, bad conversation id format.                          *)
C2_FirstViolatedRule ==
    \A r \in AllRequests :
        (req[r].pc # "idle" /\ FirstViolated(req[r].body) # 0) =>
            /\ req[r].pc = "done"
            /\ req[r].resp =
                   [status |-> 400, code |-> RuleOrder[FirstViolated(req[r].body)]]

\* the same, for every body but the JSON text null
C2_FirstViolatedRuleUnlessNull ==
    \A r \in AllRequests :
        (req[r].pc # "idle" /\ req[r].body.kind # "null"
            /\ FirstViolated(req[r].body) # 0) =>
            /\ req[r].pc = "done"
            /\ req[r].resp =
                   [status |-> 400, code |-> RuleOrder[FirstViolated(req[r].body)]]

(* C3: a message that is a non-empty string passes the message rules       *)
(* exactly when its trimmed length is between 1 and 400; above 400 it is   *)
(* answered MESSAGE_TOO_LONG, at trimmed length 0 EMPTY_MESSAGE; leading   *)
(* and trailing whitespace does not count.                                 *)
C3_LengthRules ==
    \A r \in AllRequests :
        (req[r].pc # "idle" /\ req[r].body.kind = "object" /\ IsText(req[r].body.message)) =>
            LET n == TrimmedLength(req[r].body.message.runs)
                code == req[r].resp.code
            IN  /\ (n >= 1 /\ n <= 400) <=>
                       code \notin {"MISSING_MESSAGE", "EMPTY_MESSAGE", "MESSAGE_TOO_LONG"}
                /\ n > 400 => req[r].resp = [status |-> 400, code |-> "MESSAGE_TOO_LONG"]
                /\ n = 0 => req[r].resp = [status |-> 400, code |-> "EMPTY_MESSAGE"]

C3_Witness ==
    \E r \in AllRequests :
        /\ req[r].resp.code \notin {"MISSING_MESSAGE", "EMPTY_MESSAGE", "MESSAGE_TOO_LONG"}
        /\ req[r].body.message.runs = <<Ws(1), Ch(400), Ws(2)>>

(* C4: a session is issued with expiresAt = creation time + the configured *)
(* hours (24 when unconfigured); validateSession answers valid for its     *)
(* token at every time up to and including expiresAt and invalid after it, *)
(* and invalid for a token that was never issued.                          *)
C4_ValidUntilExpiry ==
    /\ \A i \in issued :
        i.expiresAt = i.createdAt + (IF env.k = "int" THEN env.n ELSE 24)
    /\ out.op = "validateSession" =>
        (out.valid <=> \E i \in issued :
                          /\ i.sessionId = out.sessionId
                          /\ i.createdAt <= now
                          /\ now <= i.expiresAt)

C4_Witness ==
    /\ out.op = "validateSession"
    /\ out.valid
    /\ env.k = "unset"
    /\ \E i \in issued :
        i.sessionId = out.sessionId /\ i.createdAt + 24 = now

====
